---- MODULE Spec2Model ----
(***************************************************************************)
(* Model of src/extract_listing.py: the stack-based HTML tree builder      *)
(* (SimpleHTMLTreeBuilder), the id-anchored child-path selector matcher    *)
(* (select_node) and the serializer (render_inner_html).                   *)
(*                                                                         *)
(* A Python str is the sequence of its code points (integers; the text is  *)
(* given in a comment beside a literal), so that split, strip, prefix      *)
(* tests, case mapping and character classes are computed as the code      *)
(* computes them, on every character.                                      *)
(* A Node is a record [tag, attrs, contents]; the heap of Node             *)
(* objects is the sequence `nodes`, a Node's identity is its index in it   *)
(* (the root is node 1), and a contents entry is either a child (its       *)
(* index) or a text run.                                                   *)
(***************************************************************************)
EXTENDS Integers, Sequences, FiniteSets, TLC

VARIABLES nodes, stack, startend, status, event, result

\* HTMLParser.rawdata, the text fed but not yet handled, and
\* HTMLParser.cdata_elem, the open script or style element (or None).
VARIABLES rawdata, cdata_elem

buffer == <<rawdata, cdata_elem>>

\* The state of the three scripts around the parser: fetch_listing.py
\* (download), link_scraper.py (pagination) and Baran_scraper.py (batching).
VARIABLES download, pagination, batching

scripts == <<download, pagination, batching>>

vars == <<nodes, stack, startend, status, event, result, buffer, scripts>>

(***************************************************************************)
(* Bounds of the model.                                                    *)
(***************************************************************************)
\* Spec: the content entries (child nodes and text runs) one parse creates.
MaxEntries == 3

\* Spec: the content entries of the tree, and the characters left untaken
\* by the calls before, up to which feed is called.
MaxFeedEntries == 2

MaxRaw == 3

\* Spec: the content entries of the tree up to which a reference is handled.
MaxRefEntries == 1

\* SpecSelect: the content entries of the tree the selectors are run on.
SelMaxEntries == 3

\* SpecRender: the content entries of the tree that is rendered.
RenMaxEntries == 3

(***************************************************************************)
(* Tables of the Python runtime the program runs on (CPython 3.11, Unicode *)
(* 14.0.0): character classes, case mapping and the HTML entities.         *)
(***************************************************************************)
\* str.isspace(): the characters str.strip(), str.split() and the class \s of
\* re remove or match (Unicode 14.0.0, the table of Python 3.11).
WS ==
    {
      9, 10, 11, 12, 13, 28, 29, 30, 31, 32, 133, 160, 5760, 8192, 8193, 8194,
      8195, 8196, 8197, 8198, 8199, 8200, 8201, 8202, 8232, 8233, 8239, 8287,
      12288
    }

\* The code points of the digit zero of every decimal digit block: the ten
\* characters from a zero on are the digits 0..9, the class \d of re and the
\* digits int() accepts.
DecimalZeros ==
    {
      48, 1632, 1776, 1984, 2406, 2534, 2662, 2790, 2918, 3046, 3174, 3302,
      3430, 3558, 3664, 3792, 3872, 4160, 4240, 6112, 6160, 6470, 6608, 6784,
      6800, 6992, 7088, 7232, 7248, 42528, 43216, 43264, 43472, 43504, 43600,
      44016, 65296, 66720, 68912, 69734, 69872, 69942, 70096, 70384, 70736,
      70864, 71248, 71360, 71472, 71904, 72016, 72784, 73040, 73120, 92768,
      92864, 93008, 120782, 120792, 120802, 120812, 120822, 123200, 123632,
      125264, 130032
    }

\* str.lower() on one character that maps to one character: <<first, last,
\* step, offset>> maps first, first + step, ..., last to itself + offset.
LowerRanges ==
    {
      <<65, 90, 1, 32>>, <<192, 214, 1, 32>>, <<216, 222, 1, 32>>,
      <<256, 302, 2, 1>>, <<306, 310, 2, 1>>, <<313, 327, 2, 1>>,
      <<330, 374, 2, 1>>, <<376, 376, 1, -121>>, <<377, 381, 2, 1>>,
      <<385, 385, 1, 210>>, <<386, 388, 2, 1>>, <<390, 390, 1, 206>>,
      <<391, 391, 1, 1>>, <<393, 394, 1, 205>>, <<395, 395, 1, 1>>,
      <<398, 398, 1, 79>>, <<399, 399, 1, 202>>, <<400, 400, 1, 203>>,
      <<401, 401, 1, 1>>, <<403, 403, 1, 205>>, <<404, 404, 1, 207>>,
      <<406, 406, 1, 211>>, <<407, 407, 1, 209>>, <<408, 408, 1, 1>>,
      <<412, 412, 1, 211>>, <<413, 413, 1, 213>>, <<415, 415, 1, 214>>,
      <<416, 420, 2, 1>>, <<422, 422, 1, 218>>, <<423, 423, 1, 1>>,
      <<425, 425, 1, 218>>, <<428, 428, 1, 1>>, <<430, 430, 1, 218>>,
      <<431, 431, 1, 1>>, <<433, 434, 1, 217>>, <<435, 437, 2, 1>>,
      <<439, 439, 1, 219>>, <<440, 440, 1, 1>>, <<444, 444, 1, 1>>,
      <<452, 452, 1, 2>>, <<453, 453, 1, 1>>, <<455, 455, 1, 2>>,
      <<456, 456, 1, 1>>, <<458, 458, 1, 2>>, <<459, 475, 2, 1>>,
      <<478, 494, 2, 1>>, <<497, 497, 1, 2>>, <<498, 500, 2, 1>>,
      <<502, 502, 1, -97>>, <<503, 503, 1, -56>>, <<504, 542, 2, 1>>,
      <<544, 544, 1, -130>>, <<546, 562, 2, 1>>, <<570, 570, 1, 10795>>,
      <<571, 571, 1, 1>>, <<573, 573, 1, -163>>, <<574, 574, 1, 10792>>,
      <<577, 577, 1, 1>>, <<579, 579, 1, -195>>, <<580, 580, 1, 69>>,
      <<581, 581, 1, 71>>, <<582, 590, 2, 1>>, <<880, 882, 2, 1>>,
      <<886, 886, 1, 1>>, <<895, 895, 1, 116>>, <<902, 902, 1, 38>>,
      <<904, 906, 1, 37>>, <<908, 908, 1, 64>>, <<910, 911, 1, 63>>,
      <<913, 929, 1, 32>>, <<931, 939, 1, 32>>, <<975, 975, 1, 8>>,
      <<984, 1006, 2, 1>>, <<1012, 1012, 1, -60>>, <<1015, 1015, 1, 1>>,
      <<1017, 1017, 1, -7>>, <<1018, 1018, 1, 1>>, <<1021, 1023, 1, -130>>,
      <<1024, 1039, 1, 80>>, <<1040, 1071, 1, 32>>, <<1120, 1152, 2, 1>>,
      <<1162, 1214, 2, 1>>, <<1216, 1216, 1, 15>>, <<1217, 1229, 2, 1>>,
      <<1232, 1326, 2, 1>>, <<1329, 1366, 1, 48>>, <<4256, 4293, 1, 7264>>,
      <<4295, 4295, 1, 7264>>, <<4301, 4301, 1, 7264>>,
      <<5024, 5103, 1, 38864>>, <<5104, 5109, 1, 8>>,
      <<7312, 7354, 1, -3008>>, <<7357, 7359, 1, -3008>>,
      <<7680, 7828, 2, 1>>, <<7838, 7838, 1, -7615>>, <<7840, 7934, 2, 1>>,
      <<7944, 7951, 1, -8>>, <<7960, 7965, 1, -8>>, <<7976, 7983, 1, -8>>,
      <<7992, 7999, 1, -8>>, <<8008, 8013, 1, -8>>, <<8025, 8031, 2, -8>>,
      <<8040, 8047, 1, -8>>, <<8072, 8079, 1, -8>>, <<8088, 8095, 1, -8>>,
      <<8104, 8111, 1, -8>>, <<8120, 8121, 1, -8>>, <<8122, 8123, 1, -74>>,
      <<8124, 8124, 1, -9>>, <<8136, 8139, 1, -86>>, <<8140, 8140, 1, -9>>,
      <<8152, 8153, 1, -8>>, <<8154, 8155, 1, -100>>, <<8168, 8169, 1, -8>>,
      <<8170, 8171, 1, -112>>, <<8172, 8172, 1, -7>>, <<8184, 8185, 1, -128>>,
      <<8186, 8187, 1, -126>>, <<8188, 8188, 1, -9>>,
      <<8486, 8486, 1, -7517>>, <<8490, 8490, 1, -8383>>,
      <<8491, 8491, 1, -8262>>, <<8498, 8498, 1, 28>>, <<8544, 8559, 1, 16>>,
      <<8579, 8579, 1, 1>>, <<9398, 9423, 1, 26>>, <<11264, 11311, 1, 48>>,
      <<11360, 11360, 1, 1>>, <<11362, 11362, 1, -10743>>,
      <<11363, 11363, 1, -3814>>, <<11364, 11364, 1, -10727>>,
      <<11367, 11371, 2, 1>>, <<11373, 11373, 1, -10780>>,
      <<11374, 11374, 1, -10749>>, <<11375, 11375, 1, -10783>>,
      <<11376, 11376, 1, -10782>>, <<11378, 11378, 1, 1>>,
      <<11381, 11381, 1, 1>>, <<11390, 11391, 1, -10815>>,
      <<11392, 11490, 2, 1>>, <<11499, 11501, 2, 1>>, <<11506, 11506, 1, 1>>,
      <<42560, 42604, 2, 1>>, <<42624, 42650, 2, 1>>, <<42786, 42798, 2, 1>>,
      <<42802, 42862, 2, 1>>, <<42873, 42875, 2, 1>>,
      <<42877, 42877, 1, -35332>>, <<42878, 42886, 2, 1>>,
      <<42891, 42891, 1, 1>>, <<42893, 42893, 1, -42280>>,
      <<42896, 42898, 2, 1>>, <<42902, 42920, 2, 1>>,
      <<42922, 42922, 1, -42308>>, <<42923, 42923, 1, -42319>>,
      <<42924, 42924, 1, -42315>>, <<42925, 42925, 1, -42305>>,
      <<42926, 42926, 1, -42308>>, <<42928, 42928, 1, -42258>>,
      <<42929, 42929, 1, -42282>>, <<42930, 42930, 1, -42261>>,
      <<42931, 42931, 1, 928>>, <<42932, 42946, 2, 1>>,
      <<42948, 42948, 1, -48>>, <<42949, 42949, 1, -42307>>,
      <<42950, 42950, 1, -35384>>, <<42951, 42953, 2, 1>>,
      <<42960, 42960, 1, 1>>, <<42966, 42968, 2, 1>>, <<42997, 42997, 1, 1>>,
      <<65313, 65338, 1, 32>>, <<66560, 66599, 1, 40>>,
      <<66736, 66771, 1, 40>>, <<66928, 66938, 1, 39>>,
      <<66940, 66954, 1, 39>>, <<66956, 66962, 1, 39>>,
      <<66964, 66965, 1, 39>>, <<68736, 68786, 1, 64>>,
      <<71840, 71871, 1, 32>>, <<93760, 93791, 1, 32>>,
      <<125184, 125217, 1, 34>>
    }

\* The characters with the property Case_Ignorable: <<first, last>> ranges.
CaseIgnorable ==
    {
      <<39, 39>>, <<46, 46>>, <<58, 58>>, <<94, 94>>, <<96, 96>>,
      <<168, 168>>, <<173, 173>>, <<175, 175>>, <<180, 180>>, <<183, 184>>,
      <<688, 879>>, <<884, 885>>, <<890, 890>>, <<900, 901>>, <<903, 903>>,
      <<1155, 1161>>, <<1369, 1369>>, <<1375, 1375>>, <<1425, 1469>>,
      <<1471, 1471>>, <<1473, 1474>>, <<1476, 1477>>, <<1479, 1479>>,
      <<1524, 1524>>, <<1536, 1541>>, <<1552, 1562>>, <<1564, 1564>>,
      <<1600, 1600>>, <<1611, 1631>>, <<1648, 1648>>, <<1750, 1757>>,
      <<1759, 1768>>, <<1770, 1773>>, <<1807, 1807>>, <<1809, 1809>>,
      <<1840, 1866>>, <<1958, 1968>>, <<2027, 2037>>, <<2042, 2042>>,
      <<2045, 2045>>, <<2070, 2093>>, <<2137, 2139>>, <<2184, 2184>>,
      <<2192, 2193>>, <<2200, 2207>>, <<2249, 2306>>, <<2362, 2362>>,
      <<2364, 2364>>, <<2369, 2376>>, <<2381, 2381>>, <<2385, 2391>>,
      <<2402, 2403>>, <<2417, 2417>>, <<2433, 2433>>, <<2492, 2492>>,
      <<2497, 2500>>, <<2509, 2509>>, <<2530, 2531>>, <<2558, 2558>>,
      <<2561, 2562>>, <<2620, 2620>>, <<2625, 2626>>, <<2631, 2632>>,
      <<2635, 2637>>, <<2641, 2641>>, <<2672, 2673>>, <<2677, 2677>>,
      <<2689, 2690>>, <<2748, 2748>>, <<2753, 2757>>, <<2759, 2760>>,
      <<2765, 2765>>, <<2786, 2787>>, <<2810, 2815>>, <<2817, 2817>>,
      <<2876, 2876>>, <<2879, 2879>>, <<2881, 2884>>, <<2893, 2893>>,
      <<2901, 2902>>, <<2914, 2915>>, <<2946, 2946>>, <<3008, 3008>>,
      <<3021, 3021>>, <<3072, 3072>>, <<3076, 3076>>, <<3132, 3132>>,
      <<3134, 3136>>, <<3142, 3144>>, <<3146, 3149>>, <<3157, 3158>>,
      <<3170, 3171>>, <<3201, 3201>>, <<3260, 3260>>, <<3263, 3263>>,
      <<3270, 3270>>, <<3276, 3277>>, <<3298, 3299>>, <<3328, 3329>>,
      <<3387, 3388>>, <<3393, 3396>>, <<3405, 3405>>, <<3426, 3427>>,
      <<3457, 3457>>, <<3530, 3530>>, <<3538, 3540>>, <<3542, 3542>>,
      <<3633, 3633>>, <<3636, 3642>>, <<3654, 3662>>, <<3761, 3761>>,
      <<3764, 3772>>, <<3782, 3782>>, <<3784, 3789>>, <<3864, 3865>>,
      <<3893, 3893>>, <<3895, 3895>>, <<3897, 3897>>, <<3953, 3966>>,
      <<3968, 3972>>, <<3974, 3975>>, <<3981, 3991>>, <<3993, 4028>>,
      <<4038, 4038>>, <<4141, 4144>>, <<4146, 4151>>, <<4153, 4154>>,
      <<4157, 4158>>, <<4184, 4185>>, <<4190, 4192>>, <<4209, 4212>>,
      <<4226, 4226>>, <<4229, 4230>>, <<4237, 4237>>, <<4253, 4253>>,
      <<4348, 4348>>, <<4957, 4959>>, <<5906, 5908>>, <<5938, 5939>>,
      <<5970, 5971>>, <<6002, 6003>>, <<6068, 6069>>, <<6071, 6077>>,
      <<6086, 6086>>, <<6089, 6099>>, <<6103, 6103>>, <<6109, 6109>>,
      <<6155, 6159>>, <<6211, 6211>>, <<6277, 6278>>, <<6313, 6313>>,
      <<6432, 6434>>, <<6439, 6440>>, <<6450, 6450>>, <<6457, 6459>>,
      <<6679, 6680>>, <<6683, 6683>>, <<6742, 6742>>, <<6744, 6750>>,
      <<6752, 6752>>, <<6754, 6754>>, <<6757, 6764>>, <<6771, 6780>>,
      <<6783, 6783>>, <<6823, 6823>>, <<6832, 6862>>, <<6912, 6915>>,
      <<6964, 6964>>, <<6966, 6970>>, <<6972, 6972>>, <<6978, 6978>>,
      <<7019, 7027>>, <<7040, 7041>>, <<7074, 7077>>, <<7080, 7081>>,
      <<7083, 7085>>, <<7142, 7142>>, <<7144, 7145>>, <<7149, 7149>>,
      <<7151, 7153>>, <<7212, 7219>>, <<7222, 7223>>, <<7288, 7293>>,
      <<7376, 7378>>, <<7380, 7392>>, <<7394, 7400>>, <<7405, 7405>>,
      <<7412, 7412>>, <<7416, 7417>>, <<7468, 7530>>, <<7544, 7544>>,
      <<7579, 7679>>, <<8125, 8125>>, <<8127, 8129>>, <<8141, 8143>>,
      <<8157, 8159>>, <<8173, 8175>>, <<8189, 8190>>, <<8203, 8207>>,
      <<8216, 8217>>, <<8228, 8228>>, <<8231, 8231>>, <<8234, 8238>>,
      <<8288, 8292>>, <<8294, 8303>>, <<8305, 8305>>, <<8319, 8319>>,
      <<8336, 8348>>, <<8400, 8432>>, <<11388, 11389>>, <<11503, 11505>>,
      <<11631, 11631>>, <<11647, 11647>>, <<11744, 11775>>, <<11823, 11823>>,
      <<12293, 12293>>, <<12330, 12333>>, <<12337, 12341>>, <<12347, 12347>>,
      <<12441, 12446>>, <<12540, 12542>>, <<40981, 40981>>, <<42232, 42237>>,
      <<42508, 42508>>, <<42607, 42610>>, <<42612, 42621>>, <<42623, 42623>>,
      <<42652, 42655>>, <<42736, 42737>>, <<42752, 42785>>, <<42864, 42864>>,
      <<42888, 42890>>, <<42994, 42996>>, <<43000, 43001>>, <<43010, 43010>>,
      <<43014, 43014>>, <<43019, 43019>>, <<43045, 43046>>, <<43052, 43052>>,
      <<43204, 43205>>, <<43232, 43249>>, <<43263, 43263>>, <<43302, 43309>>,
      <<43335, 43345>>, <<43392, 43394>>, <<43443, 43443>>, <<43446, 43449>>,
      <<43452, 43453>>, <<43471, 43471>>, <<43493, 43494>>, <<43561, 43566>>,
      <<43569, 43570>>, <<43573, 43574>>, <<43587, 43587>>, <<43596, 43596>>,
      <<43632, 43632>>, <<43644, 43644>>, <<43696, 43696>>, <<43698, 43700>>,
      <<43703, 43704>>, <<43710, 43711>>, <<43713, 43713>>, <<43741, 43741>>,
      <<43756, 43757>>, <<43763, 43764>>, <<43766, 43766>>, <<43867, 43871>>,
      <<43881, 43883>>, <<44005, 44005>>, <<44008, 44008>>, <<44013, 44013>>,
      <<64286, 64286>>, <<64434, 64450>>, <<65024, 65039>>, <<65043, 65043>>,
      <<65056, 65071>>, <<65106, 65106>>, <<65109, 65109>>, <<65279, 65279>>,
      <<65287, 65287>>, <<65294, 65294>>, <<65306, 65306>>, <<65342, 65342>>,
      <<65344, 65344>>, <<65392, 65392>>, <<65438, 65439>>, <<65507, 65507>>,
      <<65529, 65531>>, <<66045, 66045>>, <<66272, 66272>>, <<66422, 66426>>,
      <<67456, 67461>>, <<67463, 67504>>, <<67506, 67514>>, <<68097, 68099>>,
      <<68101, 68102>>, <<68108, 68111>>, <<68152, 68154>>, <<68159, 68159>>,
      <<68325, 68326>>, <<68900, 68903>>, <<69291, 69292>>, <<69446, 69456>>,
      <<69506, 69509>>, <<69633, 69633>>, <<69688, 69702>>, <<69744, 69744>>,
      <<69747, 69748>>, <<69759, 69761>>, <<69811, 69814>>, <<69817, 69818>>,
      <<69821, 69821>>, <<69826, 69826>>, <<69837, 69837>>, <<69888, 69890>>,
      <<69927, 69931>>, <<69933, 69940>>, <<70003, 70003>>, <<70016, 70017>>,
      <<70070, 70078>>, <<70089, 70092>>, <<70095, 70095>>, <<70191, 70193>>,
      <<70196, 70196>>, <<70198, 70199>>, <<70206, 70206>>, <<70367, 70367>>,
      <<70371, 70378>>, <<70400, 70401>>, <<70459, 70460>>, <<70464, 70464>>,
      <<70502, 70508>>, <<70512, 70516>>, <<70712, 70719>>, <<70722, 70724>>,
      <<70726, 70726>>, <<70750, 70750>>, <<70835, 70840>>, <<70842, 70842>>,
      <<70847, 70848>>, <<70850, 70851>>, <<71090, 71093>>, <<71100, 71101>>,
      <<71103, 71104>>, <<71132, 71133>>, <<71219, 71226>>, <<71229, 71229>>,
      <<71231, 71232>>, <<71339, 71339>>, <<71341, 71341>>, <<71344, 71349>>,
      <<71351, 71351>>, <<71453, 71455>>, <<71458, 71461>>, <<71463, 71467>>,
      <<71727, 71735>>, <<71737, 71738>>, <<71995, 71996>>, <<71998, 71998>>,
      <<72003, 72003>>, <<72148, 72151>>, <<72154, 72155>>, <<72160, 72160>>,
      <<72193, 72202>>, <<72243, 72248>>, <<72251, 72254>>, <<72263, 72263>>,
      <<72273, 72278>>, <<72281, 72283>>, <<72330, 72342>>, <<72344, 72345>>,
      <<72752, 72758>>, <<72760, 72765>>, <<72767, 72767>>, <<72850, 72871>>,
      <<72874, 72880>>, <<72882, 72883>>, <<72885, 72886>>, <<73009, 73014>>,
      <<73018, 73018>>, <<73020, 73021>>, <<73023, 73029>>, <<73031, 73031>>,
      <<73104, 73105>>, <<73109, 73109>>, <<73111, 73111>>, <<73459, 73460>>,
      <<78896, 78904>>, <<92912, 92916>>, <<92976, 92982>>, <<92992, 92995>>,
      <<94031, 94031>>, <<94095, 94111>>, <<94176, 94177>>, <<94179, 94180>>,
      <<110576, 110579>>, <<110581, 110587>>, <<110589, 110590>>,
      <<113821, 113822>>, <<113824, 113827>>, <<118528, 118573>>,
      <<118576, 118598>>, <<119143, 119145>>, <<119155, 119170>>,
      <<119173, 119179>>, <<119210, 119213>>, <<119362, 119364>>,
      <<121344, 121398>>, <<121403, 121452>>, <<121461, 121461>>,
      <<121476, 121476>>, <<121499, 121503>>, <<121505, 121519>>,
      <<122880, 122886>>, <<122888, 122904>>, <<122907, 122913>>,
      <<122915, 122916>>, <<122918, 122922>>, <<123184, 123197>>,
      <<123566, 123566>>, <<123628, 123631>>, <<125136, 125142>>,
      <<125252, 125259>>, <<127995, 127999>>, <<917505, 917505>>,
      <<917536, 917631>>, <<917760, 917999>>
    }

\* The characters with the property Cased that are not Case_Ignorable.
CasedLetter ==
    {
      <<65, 90>>, <<97, 122>>, <<170, 170>>, <<181, 181>>, <<186, 186>>,
      <<192, 214>>, <<216, 246>>, <<248, 442>>, <<444, 447>>, <<452, 659>>,
      <<661, 687>>, <<880, 883>>, <<886, 887>>, <<891, 893>>, <<895, 895>>,
      <<902, 902>>, <<904, 906>>, <<908, 908>>, <<910, 929>>, <<931, 1013>>,
      <<1015, 1153>>, <<1162, 1327>>, <<1329, 1366>>, <<1376, 1416>>,
      <<4256, 4293>>, <<4295, 4295>>, <<4301, 4301>>, <<4304, 4346>>,
      <<4349, 4351>>, <<5024, 5109>>, <<5112, 5117>>, <<7296, 7304>>,
      <<7312, 7354>>, <<7357, 7359>>, <<7424, 7467>>, <<7531, 7543>>,
      <<7545, 7578>>, <<7680, 7957>>, <<7960, 7965>>, <<7968, 8005>>,
      <<8008, 8013>>, <<8016, 8023>>, <<8025, 8025>>, <<8027, 8027>>,
      <<8029, 8029>>, <<8031, 8061>>, <<8064, 8116>>, <<8118, 8124>>,
      <<8126, 8126>>, <<8130, 8132>>, <<8134, 8140>>, <<8144, 8147>>,
      <<8150, 8155>>, <<8160, 8172>>, <<8178, 8180>>, <<8182, 8188>>,
      <<8450, 8450>>, <<8455, 8455>>, <<8458, 8467>>, <<8469, 8469>>,
      <<8473, 8477>>, <<8484, 8484>>, <<8486, 8486>>, <<8488, 8488>>,
      <<8490, 8493>>, <<8495, 8500>>, <<8505, 8505>>, <<8508, 8511>>,
      <<8517, 8521>>, <<8526, 8526>>, <<8544, 8575>>, <<8579, 8580>>,
      <<9398, 9449>>, <<11264, 11387>>, <<11390, 11492>>, <<11499, 11502>>,
      <<11506, 11507>>, <<11520, 11557>>, <<11559, 11559>>, <<11565, 11565>>,
      <<42560, 42605>>, <<42624, 42651>>, <<42786, 42863>>, <<42865, 42887>>,
      <<42891, 42894>>, <<42896, 42954>>, <<42960, 42961>>, <<42963, 42963>>,
      <<42965, 42969>>, <<42997, 42998>>, <<43002, 43002>>, <<43824, 43866>>,
      <<43872, 43880>>, <<43888, 43967>>, <<64256, 64262>>, <<64275, 64279>>,
      <<65313, 65338>>, <<65345, 65370>>, <<66560, 66639>>, <<66736, 66771>>,
      <<66776, 66811>>, <<66928, 66938>>, <<66940, 66954>>, <<66956, 66962>>,
      <<66964, 66965>>, <<66967, 66977>>, <<66979, 66993>>, <<66995, 67001>>,
      <<67003, 67004>>, <<68736, 68786>>, <<68800, 68850>>, <<71840, 71903>>,
      <<93760, 93823>>, <<119808, 119892>>, <<119894, 119964>>,
      <<119966, 119967>>, <<119970, 119970>>, <<119973, 119974>>,
      <<119977, 119980>>, <<119982, 119993>>, <<119995, 119995>>,
      <<119997, 120003>>, <<120005, 120069>>, <<120071, 120074>>,
      <<120077, 120084>>, <<120086, 120092>>, <<120094, 120121>>,
      <<120123, 120126>>, <<120128, 120132>>, <<120134, 120134>>,
      <<120138, 120144>>, <<120146, 120485>>, <<120488, 120512>>,
      <<120514, 120538>>, <<120540, 120570>>, <<120572, 120596>>,
      <<120598, 120628>>, <<120630, 120654>>, <<120656, 120686>>,
      <<120688, 120712>>, <<120714, 120744>>, <<120746, 120770>>,
      <<120772, 120779>>, <<122624, 122633>>, <<122635, 122654>>,
      <<125184, 125251>>, <<127280, 127305>>, <<127312, 127337>>,
      <<127344, 127369>>
    }

\* str.isalnum() on one character: <<first, last>> ranges.
AlnumRanges ==
    {
      <<48, 57>>, <<65, 90>>, <<97, 122>>, <<170, 170>>, <<178, 179>>,
      <<181, 181>>, <<185, 186>>, <<188, 190>>, <<192, 214>>, <<216, 246>>,
      <<248, 705>>, <<710, 721>>, <<736, 740>>, <<748, 748>>, <<750, 750>>,
      <<880, 884>>, <<886, 887>>, <<890, 893>>, <<895, 895>>, <<902, 902>>,
      <<904, 906>>, <<908, 908>>, <<910, 929>>, <<931, 1013>>, <<1015, 1153>>,
      <<1162, 1327>>, <<1329, 1366>>, <<1369, 1369>>, <<1376, 1416>>,
      <<1488, 1514>>, <<1519, 1522>>, <<1568, 1610>>, <<1632, 1641>>,
      <<1646, 1647>>, <<1649, 1747>>, <<1749, 1749>>, <<1765, 1766>>,
      <<1774, 1788>>, <<1791, 1791>>, <<1808, 1808>>, <<1810, 1839>>,
      <<1869, 1957>>, <<1969, 1969>>, <<1984, 2026>>, <<2036, 2037>>,
      <<2042, 2042>>, <<2048, 2069>>, <<2074, 2074>>, <<2084, 2084>>,
      <<2088, 2088>>, <<2112, 2136>>, <<2144, 2154>>, <<2160, 2183>>,
      <<2185, 2190>>, <<2208, 2249>>, <<2308, 2361>>, <<2365, 2365>>,
      <<2384, 2384>>, <<2392, 2401>>, <<2406, 2415>>, <<2417, 2432>>,
      <<2437, 2444>>, <<2447, 2448>>, <<2451, 2472>>, <<2474, 2480>>,
      <<2482, 2482>>, <<2486, 2489>>, <<2493, 2493>>, <<2510, 2510>>,
      <<2524, 2525>>, <<2527, 2529>>, <<2534, 2545>>, <<2548, 2553>>,
      <<2556, 2556>>, <<2565, 2570>>, <<2575, 2576>>, <<2579, 2600>>,
      <<2602, 2608>>, <<2610, 2611>>, <<2613, 2614>>, <<2616, 2617>>,
      <<2649, 2652>>, <<2654, 2654>>, <<2662, 2671>>, <<2674, 2676>>,
      <<2693, 2701>>, <<2703, 2705>>, <<2707, 2728>>, <<2730, 2736>>,
      <<2738, 2739>>, <<2741, 2745>>, <<2749, 2749>>, <<2768, 2768>>,
      <<2784, 2785>>, <<2790, 2799>>, <<2809, 2809>>, <<2821, 2828>>,
      <<2831, 2832>>, <<2835, 2856>>, <<2858, 2864>>, <<2866, 2867>>,
      <<2869, 2873>>, <<2877, 2877>>, <<2908, 2909>>, <<2911, 2913>>,
      <<2918, 2927>>, <<2929, 2935>>, <<2947, 2947>>, <<2949, 2954>>,
      <<2958, 2960>>, <<2962, 2965>>, <<2969, 2970>>, <<2972, 2972>>,
      <<2974, 2975>>, <<2979, 2980>>, <<2984, 2986>>, <<2990, 3001>>,
      <<3024, 3024>>, <<3046, 3058>>, <<3077, 3084>>, <<3086, 3088>>,
      <<3090, 3112>>, <<3114, 3129>>, <<3133, 3133>>, <<3160, 3162>>,
      <<3165, 3165>>, <<3168, 3169>>, <<3174, 3183>>, <<3192, 3198>>,
      <<3200, 3200>>, <<3205, 3212>>, <<3214, 3216>>, <<3218, 3240>>,
      <<3242, 3251>>, <<3253, 3257>>, <<3261, 3261>>, <<3293, 3294>>,
      <<3296, 3297>>, <<3302, 3311>>, <<3313, 3314>>, <<3332, 3340>>,
      <<3342, 3344>>, <<3346, 3386>>, <<3389, 3389>>, <<3406, 3406>>,
      <<3412, 3414>>, <<3416, 3425>>, <<3430, 3448>>, <<3450, 3455>>,
      <<3461, 3478>>, <<3482, 3505>>, <<3507, 3515>>, <<3517, 3517>>,
      <<3520, 3526>>, <<3558, 3567>>, <<3585, 3632>>, <<3634, 3635>>,
      <<3648, 3654>>, <<3664, 3673>>, <<3713, 3714>>, <<3716, 3716>>,
      <<3718, 3722>>, <<3724, 3747>>, <<3749, 3749>>, <<3751, 3760>>,
      <<3762, 3763>>, <<3773, 3773>>, <<3776, 3780>>, <<3782, 3782>>,
      <<3792, 3801>>, <<3804, 3807>>, <<3840, 3840>>, <<3872, 3891>>,
      <<3904, 3911>>, <<3913, 3948>>, <<3976, 3980>>, <<4096, 4138>>,
      <<4159, 4169>>, <<4176, 4181>>, <<4186, 4189>>, <<4193, 4193>>,
      <<4197, 4198>>, <<4206, 4208>>, <<4213, 4225>>, <<4238, 4238>>,
      <<4240, 4249>>, <<4256, 4293>>, <<4295, 4295>>, <<4301, 4301>>,
      <<4304, 4346>>, <<4348, 4680>>, <<4682, 4685>>, <<4688, 4694>>,
      <<4696, 4696>>, <<4698, 4701>>, <<4704, 4744>>, <<4746, 4749>>,
      <<4752, 4784>>, <<4786, 4789>>, <<4792, 4798>>, <<4800, 4800>>,
      <<4802, 4805>>, <<4808, 4822>>, <<4824, 4880>>, <<4882, 4885>>,
      <<4888, 4954>>, <<4969, 4988>>, <<4992, 5007>>, <<5024, 5109>>,
      <<5112, 5117>>, <<5121, 5740>>, <<5743, 5759>>, <<5761, 5786>>,
      <<5792, 5866>>, <<5870, 5880>>, <<5888, 5905>>, <<5919, 5937>>,
      <<5952, 5969>>, <<5984, 5996>>, <<5998, 6000>>, <<6016, 6067>>,
      <<6103, 6103>>, <<6108, 6108>>, <<6112, 6121>>, <<6128, 6137>>,
      <<6160, 6169>>, <<6176, 6264>>, <<6272, 6276>>, <<6279, 6312>>,
      <<6314, 6314>>, <<6320, 6389>>, <<6400, 6430>>, <<6470, 6509>>,
      <<6512, 6516>>, <<6528, 6571>>, <<6576, 6601>>, <<6608, 6618>>,
      <<6656, 6678>>, <<6688, 6740>>, <<6784, 6793>>, <<6800, 6809>>,
      <<6823, 6823>>, <<6917, 6963>>, <<6981, 6988>>, <<6992, 7001>>,
      <<7043, 7072>>, <<7086, 7141>>, <<7168, 7203>>, <<7232, 7241>>,
      <<7245, 7293>>, <<7296, 7304>>, <<7312, 7354>>, <<7357, 7359>>,
      <<7401, 7404>>, <<7406, 7411>>, <<7413, 7414>>, <<7418, 7418>>,
      <<7424, 7615>>, <<7680, 7957>>, <<7960, 7965>>, <<7968, 8005>>,
      <<8008, 8013>>, <<8016, 8023>>, <<8025, 8025>>, <<8027, 8027>>,
      <<8029, 8029>>, <<8031, 8061>>, <<8064, 8116>>, <<8118, 8124>>,
      <<8126, 8126>>, <<8130, 8132>>, <<8134, 8140>>, <<8144, 8147>>,
      <<8150, 8155>>, <<8160, 8172>>, <<8178, 8180>>, <<8182, 8188>>,
      <<8304, 8305>>, <<8308, 8313>>, <<8319, 8329>>, <<8336, 8348>>,
      <<8450, 8450>>, <<8455, 8455>>, <<8458, 8467>>, <<8469, 8469>>,
      <<8473, 8477>>, <<8484, 8484>>, <<8486, 8486>>, <<8488, 8488>>,
      <<8490, 8493>>, <<8495, 8505>>, <<8508, 8511>>, <<8517, 8521>>,
      <<8526, 8526>>, <<8528, 8585>>, <<9312, 9371>>, <<9450, 9471>>,
      <<10102, 10131>>, <<11264, 11492>>, <<11499, 11502>>, <<11506, 11507>>,
      <<11517, 11517>>, <<11520, 11557>>, <<11559, 11559>>, <<11565, 11565>>,
      <<11568, 11623>>, <<11631, 11631>>, <<11648, 11670>>, <<11680, 11686>>,
      <<11688, 11694>>, <<11696, 11702>>, <<11704, 11710>>, <<11712, 11718>>,
      <<11720, 11726>>, <<11728, 11734>>, <<11736, 11742>>, <<11823, 11823>>,
      <<12293, 12295>>, <<12321, 12329>>, <<12337, 12341>>, <<12344, 12348>>,
      <<12353, 12438>>, <<12445, 12447>>, <<12449, 12538>>, <<12540, 12543>>,
      <<12549, 12591>>, <<12593, 12686>>, <<12690, 12693>>, <<12704, 12735>>,
      <<12784, 12799>>, <<12832, 12841>>, <<12872, 12879>>, <<12881, 12895>>,
      <<12928, 12937>>, <<12977, 12991>>, <<13312, 19903>>, <<19968, 42124>>,
      <<42192, 42237>>, <<42240, 42508>>, <<42512, 42539>>, <<42560, 42606>>,
      <<42623, 42653>>, <<42656, 42735>>, <<42775, 42783>>, <<42786, 42888>>,
      <<42891, 42954>>, <<42960, 42961>>, <<42963, 42963>>, <<42965, 42969>>,
      <<42994, 43009>>, <<43011, 43013>>, <<43015, 43018>>, <<43020, 43042>>,
      <<43056, 43061>>, <<43072, 43123>>, <<43138, 43187>>, <<43216, 43225>>,
      <<43250, 43255>>, <<43259, 43259>>, <<43261, 43262>>, <<43264, 43301>>,
      <<43312, 43334>>, <<43360, 43388>>, <<43396, 43442>>, <<43471, 43481>>,
      <<43488, 43492>>, <<43494, 43518>>, <<43520, 43560>>, <<43584, 43586>>,
      <<43588, 43595>>, <<43600, 43609>>, <<43616, 43638>>, <<43642, 43642>>,
      <<43646, 43695>>, <<43697, 43697>>, <<43701, 43702>>, <<43705, 43709>>,
      <<43712, 43712>>, <<43714, 43714>>, <<43739, 43741>>, <<43744, 43754>>,
      <<43762, 43764>>, <<43777, 43782>>, <<43785, 43790>>, <<43793, 43798>>,
      <<43808, 43814>>, <<43816, 43822>>, <<43824, 43866>>, <<43868, 43881>>,
      <<43888, 44002>>, <<44016, 44025>>, <<44032, 55203>>, <<55216, 55238>>,
      <<55243, 55291>>, <<63744, 64109>>, <<64112, 64217>>, <<64256, 64262>>,
      <<64275, 64279>>, <<64285, 64285>>, <<64287, 64296>>, <<64298, 64310>>,
      <<64312, 64316>>, <<64318, 64318>>, <<64320, 64321>>, <<64323, 64324>>,
      <<64326, 64433>>, <<64467, 64829>>, <<64848, 64911>>, <<64914, 64967>>,
      <<65008, 65019>>, <<65136, 65140>>, <<65142, 65276>>, <<65296, 65305>>,
      <<65313, 65338>>, <<65345, 65370>>, <<65382, 65470>>, <<65474, 65479>>,
      <<65482, 65487>>, <<65490, 65495>>, <<65498, 65500>>, <<65536, 65547>>,
      <<65549, 65574>>, <<65576, 65594>>, <<65596, 65597>>, <<65599, 65613>>,
      <<65616, 65629>>, <<65664, 65786>>, <<65799, 65843>>, <<65856, 65912>>,
      <<65930, 65931>>, <<66176, 66204>>, <<66208, 66256>>, <<66273, 66299>>,
      <<66304, 66339>>, <<66349, 66378>>, <<66384, 66421>>, <<66432, 66461>>,
      <<66464, 66499>>, <<66504, 66511>>, <<66513, 66517>>, <<66560, 66717>>,
      <<66720, 66729>>, <<66736, 66771>>, <<66776, 66811>>, <<66816, 66855>>,
      <<66864, 66915>>, <<66928, 66938>>, <<66940, 66954>>, <<66956, 66962>>,
      <<66964, 66965>>, <<66967, 66977>>, <<66979, 66993>>, <<66995, 67001>>,
      <<67003, 67004>>, <<67072, 67382>>, <<67392, 67413>>, <<67424, 67431>>,
      <<67456, 67461>>, <<67463, 67504>>, <<67506, 67514>>, <<67584, 67589>>,
      <<67592, 67592>>, <<67594, 67637>>, <<67639, 67640>>, <<67644, 67644>>,
      <<67647, 67669>>, <<67672, 67702>>, <<67705, 67742>>, <<67751, 67759>>,
      <<67808, 67826>>, <<67828, 67829>>, <<67835, 67867>>, <<67872, 67897>>,
      <<67968, 68023>>, <<68028, 68047>>, <<68050, 68096>>, <<68112, 68115>>,
      <<68117, 68119>>, <<68121, 68149>>, <<68160, 68168>>, <<68192, 68222>>,
      <<68224, 68255>>, <<68288, 68295>>, <<68297, 68324>>, <<68331, 68335>>,
      <<68352, 68405>>, <<68416, 68437>>, <<68440, 68466>>, <<68472, 68497>>,
      <<68521, 68527>>, <<68608, 68680>>, <<68736, 68786>>, <<68800, 68850>>,
      <<68858, 68899>>, <<68912, 68921>>, <<69216, 69246>>, <<69248, 69289>>,
      <<69296, 69297>>, <<69376, 69415>>, <<69424, 69445>>, <<69457, 69460>>,
      <<69488, 69505>>, <<69552, 69579>>, <<69600, 69622>>, <<69635, 69687>>,
      <<69714, 69743>>, <<69745, 69746>>, <<69749, 69749>>, <<69763, 69807>>,
      <<69840, 69864>>, <<69872, 69881>>, <<69891, 69926>>, <<69942, 69951>>,
      <<69956, 69956>>, <<69959, 69959>>, <<69968, 70002>>, <<70006, 70006>>,
      <<70019, 70066>>, <<70081, 70084>>, <<70096, 70106>>, <<70108, 70108>>,
      <<70113, 70132>>, <<70144, 70161>>, <<70163, 70187>>, <<70272, 70278>>,
      <<70280, 70280>>, <<70282, 70285>>, <<70287, 70301>>, <<70303, 70312>>,
      <<70320, 70366>>, <<70384, 70393>>, <<70405, 70412>>, <<70415, 70416>>,
      <<70419, 70440>>, <<70442, 70448>>, <<70450, 70451>>, <<70453, 70457>>,
      <<70461, 70461>>, <<70480, 70480>>, <<70493, 70497>>, <<70656, 70708>>,
      <<70727, 70730>>, <<70736, 70745>>, <<70751, 70753>>, <<70784, 70831>>,
      <<70852, 70853>>, <<70855, 70855>>, <<70864, 70873>>, <<71040, 71086>>,
      <<71128, 71131>>, <<71168, 71215>>, <<71236, 71236>>, <<71248, 71257>>,
      <<71296, 71338>>, <<71352, 71352>>, <<71360, 71369>>, <<71424, 71450>>,
      <<71472, 71483>>, <<71488, 71494>>, <<71680, 71723>>, <<71840, 71922>>,
      <<71935, 71942>>, <<71945, 71945>>, <<71948, 71955>>, <<71957, 71958>>,
      <<71960, 71983>>, <<71999, 71999>>, <<72001, 72001>>, <<72016, 72025>>,
      <<72096, 72103>>, <<72106, 72144>>, <<72161, 72161>>, <<72163, 72163>>,
      <<72192, 72192>>, <<72203, 72242>>, <<72250, 72250>>, <<72272, 72272>>,
      <<72284, 72329>>, <<72349, 72349>>, <<72368, 72440>>, <<72704, 72712>>,
      <<72714, 72750>>, <<72768, 72768>>, <<72784, 72812>>, <<72818, 72847>>,
      <<72960, 72966>>, <<72968, 72969>>, <<72971, 73008>>, <<73030, 73030>>,
      <<73040, 73049>>, <<73056, 73061>>, <<73063, 73064>>, <<73066, 73097>>,
      <<73112, 73112>>, <<73120, 73129>>, <<73440, 73458>>, <<73648, 73648>>,
      <<73664, 73684>>, <<73728, 74649>>, <<74752, 74862>>, <<74880, 75075>>,
      <<77712, 77808>>, <<77824, 78894>>, <<82944, 83526>>, <<92160, 92728>>,
      <<92736, 92766>>, <<92768, 92777>>, <<92784, 92862>>, <<92864, 92873>>,
      <<92880, 92909>>, <<92928, 92975>>, <<92992, 92995>>, <<93008, 93017>>,
      <<93019, 93025>>, <<93027, 93047>>, <<93053, 93071>>, <<93760, 93846>>,
      <<93952, 94026>>, <<94032, 94032>>, <<94099, 94111>>, <<94176, 94177>>,
      <<94179, 94179>>, <<94208, 100343>>, <<100352, 101589>>,
      <<101632, 101640>>, <<110576, 110579>>, <<110581, 110587>>,
      <<110589, 110590>>, <<110592, 110882>>, <<110928, 110930>>,
      <<110948, 110951>>, <<110960, 111355>>, <<113664, 113770>>,
      <<113776, 113788>>, <<113792, 113800>>, <<113808, 113817>>,
      <<119520, 119539>>, <<119648, 119672>>, <<119808, 119892>>,
      <<119894, 119964>>, <<119966, 119967>>, <<119970, 119970>>,
      <<119973, 119974>>, <<119977, 119980>>, <<119982, 119993>>,
      <<119995, 119995>>, <<119997, 120003>>, <<120005, 120069>>,
      <<120071, 120074>>, <<120077, 120084>>, <<120086, 120092>>,
      <<120094, 120121>>, <<120123, 120126>>, <<120128, 120132>>,
      <<120134, 120134>>, <<120138, 120144>>, <<120146, 120485>>,
      <<120488, 120512>>, <<120514, 120538>>, <<120540, 120570>>,
      <<120572, 120596>>, <<120598, 120628>>, <<120630, 120654>>,
      <<120656, 120686>>, <<120688, 120712>>, <<120714, 120744>>,
      <<120746, 120770>>, <<120772, 120779>>, <<120782, 120831>>,
      <<122624, 122654>>, <<123136, 123180>>, <<123191, 123197>>,
      <<123200, 123209>>, <<123214, 123214>>, <<123536, 123565>>,
      <<123584, 123627>>, <<123632, 123641>>, <<124896, 124902>>,
      <<124904, 124907>>, <<124909, 124910>>, <<124912, 124926>>,
      <<124928, 125124>>, <<125127, 125135>>, <<125184, 125251>>,
      <<125259, 125259>>, <<125264, 125273>>, <<126065, 126123>>,
      <<126125, 126127>>, <<126129, 126132>>, <<126209, 126253>>,
      <<126255, 126269>>, <<126464, 126467>>, <<126469, 126495>>,
      <<126497, 126498>>, <<126500, 126500>>, <<126503, 126503>>,
      <<126505, 126514>>, <<126516, 126519>>, <<126521, 126521>>,
      <<126523, 126523>>, <<126530, 126530>>, <<126535, 126535>>,
      <<126537, 126537>>, <<126539, 126539>>, <<126541, 126543>>,
      <<126545, 126546>>, <<126548, 126548>>, <<126551, 126551>>,
      <<126553, 126553>>, <<126555, 126555>>, <<126557, 126557>>,
      <<126559, 126559>>, <<126561, 126562>>, <<126564, 126564>>,
      <<126567, 126570>>, <<126572, 126578>>, <<126580, 126583>>,
      <<126585, 126588>>, <<126590, 126590>>, <<126592, 126601>>,
      <<126603, 126619>>, <<126625, 126627>>, <<126629, 126633>>,
      <<126635, 126651>>, <<127232, 127244>>, <<130032, 130041>>,
      <<131072, 173791>>, <<173824, 177976>>, <<177984, 178205>>,
      <<178208, 183969>>, <<183984, 191456>>, <<194560, 195101>>,
      <<196608, 201546>>
    }

\* html.entities.name2codepoint: <<name, code point>>.
name2codepoint ==
    {
      <<<<65, 69, 108, 105, 103>>, 198>>, (* AElig *)
      <<<<65, 97, 99, 117, 116, 101>>, 193>>, (* Aacute *)
      <<<<65, 99, 105, 114, 99>>, 194>>, (* Acirc *)
      <<<<65, 103, 114, 97, 118, 101>>, 192>>, (* Agrave *)
      <<<<65, 108, 112, 104, 97>>, 913>>, (* Alpha *)
      <<<<65, 114, 105, 110, 103>>, 197>>, (* Aring *)
      <<<<65, 116, 105, 108, 100, 101>>, 195>>, (* Atilde *)
      <<<<65, 117, 109, 108>>, 196>>, (* Auml *)
      <<<<66, 101, 116, 97>>, 914>>, (* Beta *)
      <<<<67, 99, 101, 100, 105, 108>>, 199>>, (* Ccedil *)
      <<<<67, 104, 105>>, 935>>, (* Chi *)
      <<<<68, 97, 103, 103, 101, 114>>, 8225>>, (* Dagger *)
      <<<<68, 101, 108, 116, 97>>, 916>>, (* Delta *)
      <<<<69, 84, 72>>, 208>>, (* ETH *)
      <<<<69, 97, 99, 117, 116, 101>>, 201>>, (* Eacute *)
      <<<<69, 99, 105, 114, 99>>, 202>>, (* Ecirc *)
      <<<<69, 103, 114, 97, 118, 101>>, 200>>, (* Egrave *)
      <<<<69, 112, 115, 105, 108, 111, 110>>, 917>>, (* Epsilon *)
      <<<<69, 116, 97>>, 919>>, (* Eta *)
      <<<<69, 117, 109, 108>>, 203>>, (* Euml *)
      <<<<71, 97, 109, 109, 97>>, 915>>, (* Gamma *)
      <<<<73, 97, 99, 117, 116, 101>>, 205>>, (* Iacute *)
      <<<<73, 99, 105, 114, 99>>, 206>>, (* Icirc *)
      <<<<73, 103, 114, 97, 118, 101>>, 204>>, (* Igrave *)
      <<<<73, 111, 116, 97>>, 921>>, (* Iota *)
      <<<<73, 117, 109, 108>>, 207>>, (* Iuml *)
      <<<<75, 97, 112, 112, 97>>, 922>>, (* Kappa *)
      <<<<76, 97, 109, 98, 100, 97>>, 923>>, (* Lambda *)
      <<<<77, 117>>, 924>>, (* Mu *)
      <<<<78, 116, 105, 108, 100, 101>>, 209>>, (* Ntilde *)
      <<<<78, 117>>, 925>>, (* Nu *)
      <<<<79, 69, 108, 105, 103>>, 338>>, (* OElig *)
      <<<<79, 97, 99, 117, 116, 101>>, 211>>, (* Oacute *)
      <<<<79, 99, 105, 114, 99>>, 212>>, (* Ocirc *)
      <<<<79, 103, 114, 97, 118, 101>>, 210>>, (* Ograve *)
      <<<<79, 109, 101, 103, 97>>, 937>>, (* Omega *)
      <<<<79, 109, 105, 99, 114, 111, 110>>, 927>>, (* Omicron *)
      <<<<79, 115, 108, 97, 115, 104>>, 216>>, (* Oslash *)
      <<<<79, 116, 105, 108, 100, 101>>, 213>>, (* Otilde *)
      <<<<79, 117, 109, 108>>, 214>>, (* Ouml *)
      <<<<80, 104, 105>>, 934>>, (* Phi *)
      <<<<80, 105>>, 928>>, (* Pi *)
      <<<<80, 114, 105, 109, 101>>, 8243>>, (* Prime *)
      <<<<80, 115, 105>>, 936>>, (* Psi *)
      <<<<82, 104, 111>>, 929>>, (* Rho *)
      <<<<83, 99, 97, 114, 111, 110>>, 352>>, (* Scaron *)
      <<<<83, 105, 103, 109, 97>>, 931>>, (* Sigma *)
      <<<<84, 72, 79, 82, 78>>, 222>>, (* THORN *)
      <<<<84, 97, 117>>, 932>>, (* Tau *)
      <<<<84, 104, 101, 116, 97>>, 920>>, (* Theta *)
      <<<<85, 97, 99, 117, 116, 101>>, 218>>, (* Uacute *)
      <<<<85, 99, 105, 114, 99>>, 219>>, (* Ucirc *)
      <<<<85, 103, 114, 97, 118, 101>>, 217>>, (* Ugrave *)
      <<<<85, 112, 115, 105, 108, 111, 110>>, 933>>, (* Upsilon *)
      <<<<85, 117, 109, 108>>, 220>>, (* Uuml *)
      <<<<88, 105>>, 926>>, (* Xi *)
      <<<<89, 97, 99, 117, 116, 101>>, 221>>, (* Yacute *)
      <<<<89, 117, 109, 108>>, 376>>, (* Yuml *)
      <<<<90, 101, 116, 97>>, 918>>, (* Zeta *)
      <<<<97, 97, 99, 117, 116, 101>>, 225>>, (* aacute *)
      <<<<97, 99, 105, 114, 99>>, 226>>, (* acirc *)
      <<<<97, 99, 117, 116, 101>>, 180>>, (* acute *)
      <<<<97, 101, 108, 105, 103>>, 230>>, (* aelig *)
      <<<<97, 103, 114, 97, 118, 101>>, 224>>, (* agrave *)
      <<<<97, 108, 101, 102, 115, 121, 109>>, 8501>>, (* alefsym *)
      <<<<97, 108, 112, 104, 97>>, 945>>, (* alpha *)
      <<<<97, 109, 112>>, 38>>, (* amp *)
      <<<<97, 110, 100>>, 8743>>, (* and *)
      <<<<97, 110, 103>>, 8736>>, (* ang *)
      <<<<97, 114, 105, 110, 103>>, 229>>, (* aring *)
      <<<<97, 115, 121, 109, 112>>, 8776>>, (* asymp *)
      <<<<97, 116, 105, 108, 100, 101>>, 227>>, (* atilde *)
      <<<<97, 117, 109, 108>>, 228>>, (* auml *)
      <<<<98, 100, 113, 117, 111>>, 8222>>, (* bdquo *)
      <<<<98, 101, 116, 97>>, 946>>, (* beta *)
      <<<<98, 114, 118, 98, 97, 114>>, 166>>, (* brvbar *)
      <<<<98, 117, 108, 108>>, 8226>>, (* bull *)
      <<<<99, 97, 112>>, 8745>>, (* cap *)
      <<<<99, 99, 101, 100, 105, 108>>, 231>>, (* ccedil *)
      <<<<99, 101, 100, 105, 108>>, 184>>, (* cedil *)
      <<<<99, 101, 110, 116>>, 162>>, (* cent *)
      <<<<99, 104, 105>>, 967>>, (* chi *)
      <<<<99, 105, 114, 99>>, 710>>, (* circ *)
      <<<<99, 108, 117, 98, 115>>, 9827>>, (* clubs *)
      <<<<99, 111, 110, 103>>, 8773>>, (* cong *)
      <<<<99, 111, 112, 121>>, 169>>, (* copy *)
      <<<<99, 114, 97, 114, 114>>, 8629>>, (* crarr *)
      <<<<99, 117, 112>>, 8746>>, (* cup *)
      <<<<99, 117, 114, 114, 101, 110>>, 164>>, (* curren *)
      <<<<100, 65, 114, 114>>, 8659>>, (* dArr *)
      <<<<100, 97, 103, 103, 101, 114>>, 8224>>, (* dagger *)
      <<<<100, 97, 114, 114>>, 8595>>, (* darr *)
      <<<<100, 101, 103>>, 176>>, (* deg *)
      <<<<100, 101, 108, 116, 97>>, 948>>, (* delta *)
      <<<<100, 105, 97, 109, 115>>, 9830>>, (* diams *)
      <<<<100, 105, 118, 105, 100, 101>>, 247>>, (* divide *)
      <<<<101, 97, 99, 117, 116, 101>>, 233>>, (* eacute *)
      <<<<101, 99, 105, 114, 99>>, 234>>, (* ecirc *)
      <<<<101, 103, 114, 97, 118, 101>>, 232>>, (* egrave *)
      <<<<101, 109, 112, 116, 121>>, 8709>>, (* empty *)
      <<<<101, 109, 115, 112>>, 8195>>, (* emsp *)
      <<<<101, 110, 115, 112>>, 8194>>, (* ensp *)
      <<<<101, 112, 115, 105, 108, 111, 110>>, 949>>, (* epsilon *)
      <<<<101, 113, 117, 105, 118>>, 8801>>, (* equiv *)
      <<<<101, 116, 97>>, 951>>, (* eta *)
      <<<<101, 116, 104>>, 240>>, (* eth *)
      <<<<101, 117, 109, 108>>, 235>>, (* euml *)
      <<<<101, 117, 114, 111>>, 8364>>, (* euro *)
      <<<<101, 120, 105, 115, 116>>, 8707>>, (* exist *)
      <<<<102, 110, 111, 102>>, 402>>, (* fnof *)
      <<<<102, 111, 114, 97, 108, 108>>, 8704>>, (* forall *)
      <<<<102, 114, 97, 99, 49, 50>>, 189>>, (* frac12 *)
      <<<<102, 114, 97, 99, 49, 52>>, 188>>, (* frac14 *)
      <<<<102, 114, 97, 99, 51, 52>>, 190>>, (* frac34 *)
      <<<<102, 114, 97, 115, 108>>, 8260>>, (* frasl *)
      <<<<103, 97, 109, 109, 97>>, 947>>, (* gamma *)
      <<<<103, 101>>, 8805>>, (* ge *)
      <<<<103, 116>>, 62>>, (* gt *)
      <<<<104, 65, 114, 114>>, 8660>>, (* hArr *)
      <<<<104, 97, 114, 114>>, 8596>>, (* harr *)
      <<<<104, 101, 97, 114, 116, 115>>, 9829>>, (* hearts *)
      <<<<104, 101, 108, 108, 105, 112>>, 8230>>, (* hellip *)
      <<<<105, 97, 99, 117, 116, 101>>, 237>>, (* iacute *)
      <<<<105, 99, 105, 114, 99>>, 238>>, (* icirc *)
      <<<<105, 101, 120, 99, 108>>, 161>>, (* iexcl *)
      <<<<105, 103, 114, 97, 118, 101>>, 236>>, (* igrave *)
      <<<<105, 109, 97, 103, 101>>, 8465>>, (* image *)
      <<<<105, 110, 102, 105, 110>>, 8734>>, (* infin *)
      <<<<105, 110, 116>>, 8747>>, (* int *)
      <<<<105, 111, 116, 97>>, 953>>, (* iota *)
      <<<<105, 113, 117, 101, 115, 116>>, 191>>, (* iquest *)
      <<<<105, 115, 105, 110>>, 8712>>, (* isin *)
      <<<<105, 117, 109, 108>>, 239>>, (* iuml *)
      <<<<107, 97, 112, 112, 97>>, 954>>, (* kappa *)
      <<<<108, 65, 114, 114>>, 8656>>, (* lArr *)
      <<<<108, 97, 109, 98, 100, 97>>, 955>>, (* lambda *)
      <<<<108, 97, 110, 103>>, 9001>>, (* lang *)
      <<<<108, 97, 113, 117, 111>>, 171>>, (* laquo *)
      <<<<108, 97, 114, 114>>, 8592>>, (* larr *)
      <<<<108, 99, 101, 105, 108>>, 8968>>, (* lceil *)
      <<<<108, 100, 113, 117, 111>>, 8220>>, (* ldquo *)
      <<<<108, 101>>, 8804>>, (* le *)
      <<<<108, 102, 108, 111, 111, 114>>, 8970>>, (* lfloor *)
      <<<<108, 111, 119, 97, 115, 116>>, 8727>>, (* lowast *)
      <<<<108, 111, 122>>, 9674>>, (* loz *)
      <<<<108, 114, 109>>, 8206>>, (* lrm *)
      <<<<108, 115, 97, 113, 117, 111>>, 8249>>, (* lsaquo *)
      <<<<108, 115, 113, 117, 111>>, 8216>>, (* lsquo *)
      <<<<108, 116>>, 60>>, (* lt *)
      <<<<109, 97, 99, 114>>, 175>>, (* macr *)
      <<<<109, 100, 97, 115, 104>>, 8212>>, (* mdash *)
      <<<<109, 105, 99, 114, 111>>, 181>>, (* micro *)
      <<<<109, 105, 100, 100, 111, 116>>, 183>>, (* middot *)
      <<<<109, 105, 110, 117, 115>>, 8722>>, (* minus *)
      <<<<109, 117>>, 956>>, (* mu *)
      <<<<110, 97, 98, 108, 97>>, 8711>>, (* nabla *)
      <<<<110, 98, 115, 112>>, 160>>, (* nbsp *)
      <<<<110, 100, 97, 115, 104>>, 8211>>, (* ndash *)
      <<<<110, 101>>, 8800>>, (* ne *)
      <<<<110, 105>>, 8715>>, (* ni *)
      <<<<110, 111, 116>>, 172>>, (* not *)
      <<<<110, 111, 116, 105, 110>>, 8713>>, (* notin *)
      <<<<110, 115, 117, 98>>, 8836>>, (* nsub *)
      <<<<110, 116, 105, 108, 100, 101>>, 241>>, (* ntilde *)
      <<<<110, 117>>, 957>>, (* nu *)
      <<<<111, 97, 99, 117, 116, 101>>, 243>>, (* oacute *)
      <<<<111, 99, 105, 114, 99>>, 244>>, (* ocirc *)
      <<<<111, 101, 108, 105, 103>>, 339>>, (* oelig *)
      <<<<111, 103, 114, 97, 118, 101>>, 242>>, (* ograve *)
      <<<<111, 108, 105, 110, 101>>, 8254>>, (* oline *)
      <<<<111, 109, 101, 103, 97>>, 969>>, (* omega *)
      <<<<111, 109, 105, 99, 114, 111, 110>>, 959>>, (* omicron *)
      <<<<111, 112, 108, 117, 115>>, 8853>>, (* oplus *)
      <<<<111, 114>>, 8744>>, (* or *)
      <<<<111, 114, 100, 102>>, 170>>, (* ordf *)
      <<<<111, 114, 100, 109>>, 186>>, (* ordm *)
      <<<<111, 115, 108, 97, 115, 104>>, 248>>, (* oslash *)
      <<<<111, 116, 105, 108, 100, 101>>, 245>>, (* otilde *)
      <<<<111, 116, 105, 109, 101, 115>>, 8855>>, (* otimes *)
      <<<<111, 117, 109, 108>>, 246>>, (* ouml *)
      <<<<112, 97, 114, 97>>, 182>>, (* para *)
      <<<<112, 97, 114, 116>>, 8706>>, (* part *)
      <<<<112, 101, 114, 109, 105, 108>>, 8240>>, (* permil *)
      <<<<112, 101, 114, 112>>, 8869>>, (* perp *)
      <<<<112, 104, 105>>, 966>>, (* phi *)
      <<<<112, 105>>, 960>>, (* pi *)
      <<<<112, 105, 118>>, 982>>, (* piv *)
      <<<<112, 108, 117, 115, 109, 110>>, 177>>, (* plusmn *)
      <<<<112, 111, 117, 110, 100>>, 163>>, (* pound *)
      <<<<112, 114, 105, 109, 101>>, 8242>>, (* prime *)
      <<<<112, 114, 111, 100>>, 8719>>, (* prod *)
      <<<<112, 114, 111, 112>>, 8733>>, (* prop *)
      <<<<112, 115, 105>>, 968>>, (* psi *)
      <<<<113, 117, 111, 116>>, 34>>, (* quot *)
      <<<<114, 65, 114, 114>>, 8658>>, (* rArr *)
      <<<<114, 97, 100, 105, 99>>, 8730>>, (* radic *)
      <<<<114, 97, 110, 103>>, 9002>>, (* rang *)
      <<<<114, 97, 113, 117, 111>>, 187>>, (* raquo *)
      <<<<114, 97, 114, 114>>, 8594>>, (* rarr *)
      <<<<114, 99, 101, 105, 108>>, 8969>>, (* rceil *)
      <<<<114, 100, 113, 117, 111>>, 8221>>, (* rdquo *)
      <<<<114, 101, 97, 108>>, 8476>>, (* real *)
      <<<<114, 101, 103>>, 174>>, (* reg *)
      <<<<114, 102, 108, 111, 111, 114>>, 8971>>, (* rfloor *)
      <<<<114, 104, 111>>, 961>>, (* rho *)
      <<<<114, 108, 109>>, 8207>>, (* rlm *)
      <<<<114, 115, 97, 113, 117, 111>>, 8250>>, (* rsaquo *)
      <<<<114, 115, 113, 117, 111>>, 8217>>, (* rsquo *)
      <<<<115, 98, 113, 117, 111>>, 8218>>, (* sbquo *)
      <<<<115, 99, 97, 114, 111, 110>>, 353>>, (* scaron *)
      <<<<115, 100, 111, 116>>, 8901>>, (* sdot *)
      <<<<115, 101, 99, 116>>, 167>>, (* sect *)
      <<<<115, 104, 121>>, 173>>, (* shy *)
      <<<<115, 105, 103, 109, 97>>, 963>>, (* sigma *)
      <<<<115, 105, 103, 109, 97, 102>>, 962>>, (* sigmaf *)
      <<<<115, 105, 109>>, 8764>>, (* sim *)
      <<<<115, 112, 97, 100, 101, 115>>, 9824>>, (* spades *)
      <<<<115, 117, 98>>, 8834>>, (* sub *)
      <<<<115, 117, 98, 101>>, 8838>>, (* sube *)
      <<<<115, 117, 109>>, 8721>>, (* sum *)
      <<<<115, 117, 112>>, 8835>>, (* sup *)
      <<<<115, 117, 112, 49>>, 185>>, (* sup1 *)
      <<<<115, 117, 112, 50>>, 178>>, (* sup2 *)
      <<<<115, 117, 112, 51>>, 179>>, (* sup3 *)
      <<<<115, 117, 112, 101>>, 8839>>, (* supe *)
      <<<<115, 122, 108, 105, 103>>, 223>>, (* szlig *)
      <<<<116, 97, 117>>, 964>>, (* tau *)
      <<<<116, 104, 101, 114, 101, 52>>, 8756>>, (* there4 *)
      <<<<116, 104, 101, 116, 97>>, 952>>, (* theta *)
      <<<<116, 104, 101, 116, 97, 115, 121, 109>>, 977>>, (* thetasym *)
      <<<<116, 104, 105, 110, 115, 112>>, 8201>>, (* thinsp *)
      <<<<116, 104, 111, 114, 110>>, 254>>, (* thorn *)
      <<<<116, 105, 108, 100, 101>>, 732>>, (* tilde *)
      <<<<116, 105, 109, 101, 115>>, 215>>, (* times *)
      <<<<116, 114, 97, 100, 101>>, 8482>>, (* trade *)
      <<<<117, 65, 114, 114>>, 8657>>, (* uArr *)
      <<<<117, 97, 99, 117, 116, 101>>, 250>>, (* uacute *)
      <<<<117, 97, 114, 114>>, 8593>>, (* uarr *)
      <<<<117, 99, 105, 114, 99>>, 251>>, (* ucirc *)
      <<<<117, 103, 114, 97, 118, 101>>, 249>>, (* ugrave *)
      <<<<117, 109, 108>>, 168>>, (* uml *)
      <<<<117, 112, 115, 105, 104>>, 978>>, (* upsih *)
      <<<<117, 112, 115, 105, 108, 111, 110>>, 965>>, (* upsilon *)
      <<<<117, 117, 109, 108>>, 252>>, (* uuml *)
      <<<<119, 101, 105, 101, 114, 112>>, 8472>>, (* weierp *)
      <<<<120, 105>>, 958>>, (* xi *)
      <<<<121, 97, 99, 117, 116, 101>>, 253>>, (* yacute *)
      <<<<121, 101, 110>>, 165>>, (* yen *)
      <<<<121, 117, 109, 108>>, 255>>, (* yuml *)
      <<<<122, 101, 116, 97>>, 950>>, (* zeta *)
      <<<<122, 119, 106>>, 8205>>, (* zwj *)
      <<<<122, 119, 110, 106>>, 8204>> (* zwnj *)
    }

\* html.entities.html5: <<name, text>>.
html5 ==
    {
      <<<<65, 69, 108, 105, 103>>, <<198>>>>, (* AElig *)
      <<<<65, 69, 108, 105, 103, 59>>, <<198>>>>, (* AElig; *)
      <<<<65, 77, 80>>, <<38>>>>, (* AMP *)
      <<<<65, 77, 80, 59>>, <<38>>>>, (* AMP; *)
      <<<<65, 97, 99, 117, 116, 101>>, <<193>>>>, (* Aacute *)
      <<<<65, 97, 99, 117, 116, 101, 59>>, <<193>>>>, (* Aacute; *)
      <<<<65, 98, 114, 101, 118, 101, 59>>, <<258>>>>, (* Abreve; *)
      <<<<65, 99, 105, 114, 99>>, <<194>>>>, (* Acirc *)
      <<<<65, 99, 105, 114, 99, 59>>, <<194>>>>, (* Acirc; *)
      <<<<65, 99, 121, 59>>, <<1040>>>>, (* Acy; *)
      <<<<65, 102, 114, 59>>, <<120068>>>>, (* Afr; *)
      <<<<65, 103, 114, 97, 118, 101>>, <<192>>>>, (* Agrave *)
      <<<<65, 103, 114, 97, 118, 101, 59>>, <<192>>>>, (* Agrave; *)
      <<<<65, 108, 112, 104, 97, 59>>, <<913>>>>, (* Alpha; *)
      <<<<65, 109, 97, 99, 114, 59>>, <<256>>>>, (* Amacr; *)
      <<<<65, 110, 100, 59>>, <<10835>>>>, (* And; *)
      <<<<65, 111, 103, 111, 110, 59>>, <<260>>>>, (* Aogon; *)
      <<<<65, 111, 112, 102, 59>>, <<120120>>>>, (* Aopf; *)
      <<<<65, 112, 112, 108, 121, 70, 117, 110, 99, 116, 105, 111, 110, 59>>, <<8289>>>>, (* ApplyFunction; *)
      <<<<65, 114, 105, 110, 103>>, <<197>>>>, (* Aring *)
      <<<<65, 114, 105, 110, 103, 59>>, <<197>>>>, (* Aring; *)
      <<<<65, 115, 99, 114, 59>>, <<119964>>>>, (* Ascr; *)
      <<<<65, 115, 115, 105, 103, 110, 59>>, <<8788>>>>, (* Assign; *)
      <<<<65, 116, 105, 108, 100, 101>>, <<195>>>>, (* Atilde *)
      <<<<65, 116, 105, 108, 100, 101, 59>>, <<195>>>>, (* Atilde; *)
      <<<<65, 117, 109, 108>>, <<196>>>>, (* Auml *)
      <<<<65, 117, 109, 108, 59>>, <<196>>>>, (* Auml; *)
      <<<<66, 97, 99, 107, 115, 108, 97, 115, 104, 59>>, <<8726>>>>, (* Backslash; *)
      <<<<66, 97, 114, 118, 59>>, <<10983>>>>, (* Barv; *)
      <<<<66, 97, 114, 119, 101, 100, 59>>, <<8966>>>>, (* Barwed; *)
      <<<<66, 99, 121, 59>>, <<1041>>>>, (* Bcy; *)
      <<<<66, 101, 99, 97, 117, 115, 101, 59>>, <<8757>>>>, (* Because; *)
      <<<<66, 101, 114, 110, 111, 117, 108, 108, 105, 115, 59>>, <<8492>>>>, (* Bernoullis; *)
      <<<<66, 101, 116, 97, 59>>, <<914>>>>, (* Beta; *)
      <<<<66, 102, 114, 59>>, <<120069>>>>, (* Bfr; *)
      <<<<66, 111, 112, 102, 59>>, <<120121>>>>, (* Bopf; *)
      <<<<66, 114, 101, 118, 101, 59>>, <<728>>>>, (* Breve; *)
      <<<<66, 115, 99, 114, 59>>, <<8492>>>>, (* Bscr; *)
      <<<<66, 117, 109, 112, 101, 113, 59>>, <<8782>>>>, (* Bumpeq; *)
      <<<<67, 72, 99, 121, 59>>, <<1063>>>>, (* CHcy; *)
      <<<<67, 79, 80, 89>>, <<169>>>>, (* COPY *)
      <<<<67, 79, 80, 89, 59>>, <<169>>>>, (* COPY; *)
      <<<<67, 97, 99, 117, 116, 101, 59>>, <<262>>>>, (* Cacute; *)
      <<<<67, 97, 112, 59>>, <<8914>>>>, (* Cap; *)
      <<<<67, 97, 112, 105, 116, 97, 108, 68, 105, 102, 102, 101, 114, 101, 110, 116, 105, 97, 108, 68, 59>>, <<8517>>>>, (* CapitalDifferentialD; *)
      <<<<67, 97, 121, 108, 101, 121, 115, 59>>, <<8493>>>>, (* Cayleys; *)
      <<<<67, 99, 97, 114, 111, 110, 59>>, <<268>>>>, (* Ccaron; *)
      <<<<67, 99, 101, 100, 105, 108>>, <<199>>>>, (* Ccedil *)
      <<<<67, 99, 101, 100, 105, 108, 59>>, <<199>>>>, (* Ccedil; *)
      <<<<67, 99, 105, 114, 99, 59>>, <<264>>>>, (* Ccirc; *)
      <<<<67, 99, 111, 110, 105, 110, 116, 59>>, <<8752>>>>, (* Cconint; *)
      <<<<67, 100, 111, 116, 59>>, <<266>>>>, (* Cdot; *)
      <<<<67, 101, 100, 105, 108, 108, 97, 59>>, <<184>>>>, (* Cedilla; *)
      <<<<67, 101, 110, 116, 101, 114, 68, 111, 116, 59>>, <<183>>>>, (* CenterDot; *)
      <<<<67, 102, 114, 59>>, <<8493>>>>, (* Cfr; *)
      <<<<67, 104, 105, 59>>, <<935>>>>, (* Chi; *)
      <<<<67, 105, 114, 99, 108, 101, 68, 111, 116, 59>>, <<8857>>>>, (* CircleDot; *)
      <<<<67, 105, 114, 99, 108, 101, 77, 105, 110, 117, 115, 59>>, <<8854>>>>, (* CircleMinus; *)
      <<<<67, 105, 114, 99, 108, 101, 80, 108, 117, 115, 59>>, <<8853>>>>, (* CirclePlus; *)
      <<<<67, 105, 114, 99, 108, 101, 84, 105, 109, 101, 115, 59>>, <<8855>>>>, (* CircleTimes; *)
      <<<<67, 108, 111, 99, 107, 119, 105, 115, 101, 67, 111, 110, 116, 111, 117, 114, 73, 110, 116, 101, 103, 114, 97, 108, 59>>, <<8754>>>>, (* ClockwiseContourIntegral; *)
      <<<<67, 108, 111, 115, 101, 67, 117, 114, 108, 121, 68, 111, 117, 98, 108, 101, 81, 117, 111, 116, 101, 59>>, <<8221>>>>, (* CloseCurlyDoubleQuote; *)
      <<<<67, 108, 111, 115, 101, 67, 117, 114, 108, 121, 81, 117, 111, 116, 101, 59>>, <<8217>>>>, (* CloseCurlyQuote; *)
      <<<<67, 111, 108, 111, 110, 59>>, <<8759>>>>, (* Colon; *)
      <<<<67, 111, 108, 111, 110, 101, 59>>, <<10868>>>>, (* Colone; *)
      <<<<67, 111, 110, 103, 114, 117, 101, 110, 116, 59>>, <<8801>>>>, (* Congruent; *)
      <<<<67, 111, 110, 105, 110, 116, 59>>, <<8751>>>>, (* Conint; *)
      <<<<67, 111, 110, 116, 111, 117, 114, 73, 110, 116, 101, 103, 114, 97, 108, 59>>, <<8750>>>>, (* ContourIntegral; *)
      <<<<67, 111, 112, 102, 59>>, <<8450>>>>, (* Copf; *)
      <<<<67, 111, 112, 114, 111, 100, 117, 99, 116, 59>>, <<8720>>>>, (* Coproduct; *)
      <<<<67, 111, 117, 110, 116, 101, 114, 67, 108, 111, 99, 107, 119, 105, 115, 101, 67, 111, 110, 116, 111, 117, 114, 73, 110, 116, 101, 103, 114, 97, 108, 59>>, <<8755>>>>, (* CounterClockwiseContourIntegral; *)
      <<<<67, 114, 111, 115, 115, 59>>, <<10799>>>>, (* Cross; *)
      <<<<67, 115, 99, 114, 59>>, <<119966>>>>, (* Cscr; *)
      <<<<67, 117, 112, 59>>, <<8915>>>>, (* Cup; *)
      <<<<67, 117, 112, 67, 97, 112, 59>>, <<8781>>>>, (* CupCap; *)
      <<<<68, 68, 59>>, <<8517>>>>, (* DD; *)
      <<<<68, 68, 111, 116, 114, 97, 104, 100, 59>>, <<10513>>>>, (* DDotrahd; *)
      <<<<68, 74, 99, 121, 59>>, <<1026>>>>, (* DJcy; *)
      <<<<68, 83, 99, 121, 59>>, <<1029>>>>, (* DScy; *)
      <<<<68, 90, 99, 121, 59>>, <<1039>>>>, (* DZcy; *)
      <<<<68, 97, 103, 103, 101, 114, 59>>, <<8225>>>>, (* Dagger; *)
      <<<<68, 97, 114, 114, 59>>, <<8609>>>>, (* Darr; *)
      <<<<68, 97, 115, 104, 118, 59>>, <<10980>>>>, (* Dashv; *)
      <<<<68, 99, 97, 114, 111, 110, 59>>, <<270>>>>, (* Dcaron; *)
      <<<<68, 99, 121, 59>>, <<1044>>>>, (* Dcy; *)
      <<<<68, 101, 108, 59>>, <<8711>>>>, (* Del; *)
      <<<<68, 101, 108, 116, 97, 59>>, <<916>>>>, (* Delta; *)
      <<<<68, 102, 114, 59>>, <<120071>>>>, (* Dfr; *)
      <<<<68, 105, 97, 99, 114, 105, 116, 105, 99, 97, 108, 65, 99, 117, 116, 101, 59>>, <<180>>>>, (* DiacriticalAcute; *)
      <<<<68, 105, 97, 99, 114, 105, 116, 105, 99, 97, 108, 68, 111, 116, 59>>, <<729>>>>, (* DiacriticalDot; *)
      <<<<68, 105, 97, 99, 114, 105, 116, 105, 99, 97, 108, 68, 111, 117, 98, 108, 101, 65, 99, 117, 116, 101, 59>>, <<733>>>>, (* DiacriticalDoubleAcute; *)
      <<<<68, 105, 97, 99, 114, 105, 116, 105, 99, 97, 108, 71, 114, 97, 118, 101, 59>>, <<96>>>>, (* DiacriticalGrave; *)
      <<<<68, 105, 97, 99, 114, 105, 116, 105, 99, 97, 108, 84, 105, 108, 100, 101, 59>>, <<732>>>>, (* DiacriticalTilde; *)
      <<<<68, 105, 97, 109, 111, 110, 100, 59>>, <<8900>>>>, (* Diamond; *)
      <<<<68, 105, 102, 102, 101, 114, 101, 110, 116, 105, 97, 108, 68, 59>>, <<8518>>>>, (* DifferentialD; *)
      <<<<68, 111, 112, 102, 59>>, <<120123>>>>, (* Dopf; *)
      <<<<68, 111, 116, 59>>, <<168>>>>, (* Dot; *)
      <<<<68, 111, 116, 68, 111, 116, 59>>, <<8412>>>>, (* DotDot; *)
      <<<<68, 111, 116, 69, 113, 117, 97, 108, 59>>, <<8784>>>>, (* DotEqual; *)
      <<<<68, 111, 117, 98, 108, 101, 67, 111, 110, 116, 111, 117, 114, 73, 110, 116, 101, 103, 114, 97, 108, 59>>, <<8751>>>>, (* DoubleContourIntegral; *)
      <<<<68, 111, 117, 98, 108, 101, 68, 111, 116, 59>>, <<168>>>>, (* DoubleDot; *)
      <<<<68, 111, 117, 98, 108, 101, 68, 111, 119, 110, 65, 114, 114, 111, 119, 59>>, <<8659>>>>, (* DoubleDownArrow; *)
      <<<<68, 111, 117, 98, 108, 101, 76, 101, 102, 116, 65, 114, 114, 111, 119, 59>>, <<8656>>>>, (* DoubleLeftArrow; *)
      <<<<68, 111, 117, 98, 108, 101, 76, 101, 102, 116, 82, 105, 103, 104, 116, 65, 114, 114, 111, 119, 59>>, <<8660>>>>, (* DoubleLeftRightArrow; *)
      <<<<68, 111, 117, 98, 108, 101, 76, 101, 102, 116, 84, 101, 101, 59>>, <<10980>>>>, (* DoubleLeftTee; *)
      <<<<68, 111, 117, 98, 108, 101, 76, 111, 110, 103, 76, 101, 102, 116, 65, 114, 114, 111, 119, 59>>, <<10232>>>>, (* DoubleLongLeftArrow; *)
      <<<<68, 111, 117, 98, 108, 101, 76, 111, 110, 103, 76, 101, 102, 116, 82, 105, 103, 104, 116, 65, 114, 114, 111, 119, 59>>, <<10234>>>>, (* DoubleLongLeftRightArrow; *)
      <<<<68, 111, 117, 98, 108, 101, 76, 111, 110, 103, 82, 105, 103, 104, 116, 65, 114, 114, 111, 119, 59>>, <<10233>>>>, (* DoubleLongRightArrow; *)
      <<<<68, 111, 117, 98, 108, 101, 82, 105, 103, 104, 116, 65, 114, 114, 111, 119, 59>>, <<8658>>>>, (* DoubleRightArrow; *)
      <<<<68, 111, 117, 98, 108, 101, 82, 105, 103, 104, 116, 84, 101, 101, 59>>, <<8872>>>>, (* DoubleRightTee; *)
      <<<<68, 111, 117, 98, 108, 101, 85, 112, 65, 114, 114, 111, 119, 59>>, <<8657>>>>, (* DoubleUpArrow; *)
      <<<<68, 111, 117, 98, 108, 101, 85, 112, 68, 111, 119, 110, 65, 114, 114, 111, 119, 59>>, <<8661>>>>, (* DoubleUpDownArrow; *)
      <<<<68, 111, 117, 98, 108, 101, 86, 101, 114, 116, 105, 99, 97, 108, 66, 97, 114, 59>>, <<8741>>>>, (* DoubleVerticalBar; *)
      <<<<68, 111, 119, 110, 65, 114, 114, 111, 119, 59>>, <<8595>>>>, (* DownArrow; *)
      <<<<68, 111, 119, 110, 65, 114, 114, 111, 119, 66, 97, 114, 59>>, <<10515>>>>, (* DownArrowBar; *)
      <<<<68, 111, 119, 110, 65, 114, 114, 111, 119, 85, 112, 65, 114, 114, 111, 119, 59>>, <<8693>>>>, (* DownArrowUpArrow; *)
      <<<<68, 111, 119, 110, 66, 114, 101, 118, 101, 59>>, <<785>>>>, (* DownBreve; *)
      <<<<68, 111, 119, 110, 76, 101, 102, 116, 82, 105, 103, 104, 116, 86, 101, 99, 116, 111, 114, 59>>, <<10576>>>>, (* DownLeftRightVector; *)
      <<<<68, 111, 119, 110, 76, 101, 102, 116, 84, 101, 101, 86, 101, 99, 116, 111, 114, 59>>, <<10590>>>>, (* DownLeftTeeVector; *)
      <<<<68, 111, 119, 110, 76, 101, 102, 116, 86, 101, 99, 116, 111, 114, 59>>, <<8637>>>>, (* DownLeftVector; *)
      <<<<68, 111, 119, 110, 76, 101, 102, 116, 86, 101, 99, 116, 111, 114, 66, 97, 114, 59>>, <<10582>>>>, (* DownLeftVectorBar; *)
      <<<<68, 111, 119, 110, 82, 105, 103, 104, 116, 84, 101, 101, 86, 101, 99, 116, 111, 114, 59>>, <<10591>>>>, (* DownRightTeeVector; *)
      <<<<68, 111, 119, 110, 82, 105, 103, 104, 116, 86, 101, 99, 116, 111, 114, 59>>, <<8641>>>>, (* DownRightVector; *)
      <<<<68, 111, 119, 110, 82, 105, 103, 104, 116, 86, 101, 99, 116, 111, 114, 66, 97, 114, 59>>, <<10583>>>>, (* DownRightVectorBar; *)
      <<<<68, 111, 119, 110, 84, 101, 101, 59>>, <<8868>>>>, (* DownTee; *)
      <<<<68, 111, 119, 110, 84, 101, 101, 65, 114, 114, 111, 119, 59>>, <<8615>>>>, (* DownTeeArrow; *)
      <<<<68, 111, 119, 110, 97, 114, 114, 111, 119, 59>>, <<8659>>>>, (* Downarrow; *)
      <<<<68, 115, 99, 114, 59>>, <<119967>>>>, (* Dscr; *)
      <<<<68, 115, 116, 114, 111, 107, 59>>, <<272>>>>, (* Dstrok; *)
      <<<<69, 78, 71, 59>>, <<330>>>>, (* ENG; *)
      <<<<69, 84, 72>>, <<208>>>>, (* ETH *)
      <<<<69, 84, 72, 59>>, <<208>>>>, (* ETH; *)
      <<<<69, 97, 99, 117, 116, 101>>, <<201>>>>, (* Eacute *)
      <<<<69, 97, 99, 117, 116, 101, 59>>, <<201>>>>, (* Eacute; *)
      <<<<69, 99, 97, 114, 111, 110, 59>>, <<282>>>>, (* Ecaron; *)
      <<<<69, 99, 105, 114, 99>>, <<202>>>>, (* Ecirc *)
      <<<<69, 99, 105, 114, 99, 59>>, <<202>>>>, (* Ecirc; *)
      <<<<69, 99, 121, 59>>, <<1069>>>>, (* Ecy; *)
      <<<<69, 100, 111, 116, 59>>, <<278>>>>, (* Edot; *)
      <<<<69, 102, 114, 59>>, <<120072>>>>, (* Efr; *)
      <<<<69, 103, 114, 97, 118, 101>>, <<200>>>>, (* Egrave *)
      <<<<69, 103, 114, 97, 118, 101, 59>>, <<200>>>>, (* Egrave; *)
      <<<<69, 108, 101, 109, 101, 110, 116, 59>>, <<8712>>>>, (* Element; *)
      <<<<69, 109, 97, 99, 114, 59>>, <<274>>>>, (* Emacr; *)
      <<<<69, 109, 112, 116, 121, 83, 109, 97, 108, 108, 83, 113, 117, 97, 114, 101, 59>>, <<9723>>>>, (* EmptySmallSquare; *)
      <<<<69, 109, 112, 116, 121, 86, 101, 114, 121, 83, 109, 97, 108, 108, 83, 113, 117, 97, 114, 101, 59>>, <<9643>>>>, (* EmptyVerySmallSquare; *)
      <<<<69, 111, 103, 111, 110, 59>>, <<280>>>>, (* Eogon; *)
      <<<<69, 111, 112, 102, 59>>, <<120124>>>>, (* Eopf; *)
      <<<<69, 112, 115, 105, 108, 111, 110, 59>>, <<917>>>>, (* Epsilon; *)
      <<<<69, 113, 117, 97, 108, 59>>, <<10869>>>>, (* Equal; *)
      <<<<69, 113, 117, 97, 108, 84, 105, 108, 100, 101, 59>>, <<8770>>>>, (* EqualTilde; *)
      <<<<69, 113, 117, 105, 108, 105, 98, 114, 105, 117, 109, 59>>, <<8652>>>>, (* Equilibrium; *)
      <<<<69, 115, 99, 114, 59>>, <<8496>>>>, (* Escr; *)
      <<<<69, 115, 105, 109, 59>>, <<10867>>>>, (* Esim; *)
      <<<<69, 116, 97, 59>>, <<919>>>>, (* Eta; *)
      <<<<69, 117, 109, 108>>, <<203>>>>, (* Euml *)
      <<<<69, 117, 109, 108, 59>>, <<203>>>>, (* Euml; *)
      <<<<69, 120, 105, 115, 116, 115, 59>>, <<8707>>>>, (* Exists; *)
      <<<<69, 120, 112, 111, 110, 101, 110, 116, 105, 97, 108, 69, 59>>, <<8519>>>>, (* ExponentialE; *)
      <<<<70, 99, 121, 59>>, <<1060>>>>, (* Fcy; *)
      <<<<70, 102, 114, 59>>, <<120073>>>>, (* Ffr; *)
      <<<<70, 105, 108, 108, 101, 100, 83, 109, 97, 108, 108, 83, 113, 117, 97, 114, 101, 59>>, <<9724>>>>, (* FilledSmallSquare; *)
      <<<<70, 105, 108, 108, 101, 100, 86, 101, 114, 121, 83, 109, 97, 108, 108, 83, 113, 117, 97, 114, 101, 59>>, <<9642>>>>, (* FilledVerySmallSquare; *)
      <<<<70, 111, 112, 102, 59>>, <<120125>>>>, (* Fopf; *)
      <<<<70, 111, 114, 65, 108, 108, 59>>, <<8704>>>>, (* ForAll; *)
      <<<<70, 111, 117, 114, 105, 101, 114, 116, 114, 102, 59>>, <<8497>>>>, (* Fouriertrf; *)
      <<<<70, 115, 99, 114, 59>>, <<8497>>>>, (* Fscr; *)
      <<<<71, 74, 99, 121, 59>>, <<1027>>>>, (* GJcy; *)
      <<<<71, 84>>, <<62>>>>, (* GT *)
      <<<<71, 84, 59>>, <<62>>>>, (* GT; *)
      <<<<71, 97, 109, 109, 97, 59>>, <<915>>>>, (* Gamma; *)
      <<<<71, 97, 109, 109, 97, 100, 59>>, <<988>>>>, (* Gammad; *)
      <<<<71, 98, 114, 101, 118, 101, 59>>, <<286>>>>, (* Gbreve; *)
      <<<<71, 99, 101, 100, 105, 108, 59>>, <<290>>>>, (* Gcedil; *)
      <<<<71, 99, 105, 114, 99, 59>>, <<284>>>>, (* Gcirc; *)
      <<<<71, 99, 121, 59>>, <<1043>>>>, (* Gcy; *)
      <<<<71, 100, 111, 116, 59>>, <<288>>>>, (* Gdot; *)
      <<<<71, 102, 114, 59>>, <<120074>>>>, (* Gfr; *)
      <<<<71, 103, 59>>, <<8921>>>>, (* Gg; *)
      <<<<71, 111, 112, 102, 59>>, <<120126>>>>, (* Gopf; *)
      <<<<71, 114, 101, 97, 116, 101, 114, 69, 113, 117, 97, 108, 59>>, <<8805>>>>, (* GreaterEqual; *)
      <<<<71, 114, 101, 97, 116, 101, 114, 69, 113, 117, 97, 108, 76, 101, 115, 115, 59>>, <<8923>>>>, (* GreaterEqualLess; *)
      <<<<71, 114, 101, 97, 116, 101, 114, 70, 117, 108, 108, 69, 113, 117, 97, 108, 59>>, <<8807>>>>, (* GreaterFullEqual; *)
      <<<<71, 114, 101, 97, 116, 101, 114, 71, 114, 101, 97, 116, 101, 114, 59>>, <<10914>>>>, (* GreaterGreater; *)
      <<<<71, 114, 101, 97, 116, 101, 114, 76, 101, 115, 115, 59>>, <<8823>>>>, (* GreaterLess; *)
      <<<<71, 114, 101, 97, 116, 101, 114, 83, 108, 97, 110, 116, 69, 113, 117, 97, 108, 59>>, <<10878>>>>, (* GreaterSlantEqual; *)
      <<<<71, 114, 101, 97, 116, 101, 114, 84, 105, 108, 100, 101, 59>>, <<8819>>>>, (* GreaterTilde; *)
      <<<<71, 115, 99, 114, 59>>, <<119970>>>>, (* Gscr; *)
      <<<<71, 116, 59>>, <<8811>>>>, (* Gt; *)
      <<<<72, 65, 82, 68, 99, 121, 59>>, <<1066>>>>, (* HARDcy; *)
      <<<<72, 97, 99, 101, 107, 59>>, <<711>>>>, (* Hacek; *)
      <<<<72, 97, 116, 59>>, <<94>>>>, (* Hat; *)
      <<<<72, 99, 105, 114, 99, 59>>, <<292>>>>, (* Hcirc; *)
      <<<<72, 102, 114, 59>>, <<8460>>>>, (* Hfr; *)
      <<<<72, 105, 108, 98, 101, 114, 116, 83, 112, 97, 99, 101, 59>>, <<8459>>>>, (* HilbertSpace; *)
      <<<<72, 111, 112, 102, 59>>, <<8461>>>>, (* Hopf; *)
      <<<<72, 111, 114, 105, 122, 111, 110, 116, 97, 108, 76, 105, 110, 101, 59>>, <<9472>>>>, (* HorizontalLine; *)
      <<<<72, 115, 99, 114, 59>>, <<8459>>>>, (* Hscr; *)
      <<<<72, 115, 116, 114, 111, 107, 59>>, <<294>>>>, (* Hstrok; *)
      <<<<72, 117, 109, 112, 68, 111, 119, 110, 72, 117, 109, 112, 59>>, <<8782>>>>, (* HumpDownHump; *)
      <<<<72, 117, 109, 112, 69, 113, 117, 97, 108, 59>>, <<8783>>>>, (* HumpEqual; *)
      <<<<73, 69, 99, 121, 59>>, <<1045>>>>, (* IEcy; *)
      <<<<73, 74, 108, 105, 103, 59>>, <<306>>>>, (* IJlig; *)
      <<<<73, 79, 99, 121, 59>>, <<1025>>>>, (* IOcy; *)
      <<<<73, 97, 99, 117, 116, 101>>, <<205>>>>, (* Iacute *)
      <<<<73, 97, 99, 117, 116, 101, 59>>, <<205>>>>, (* Iacute; *)
      <<<<73, 99, 105, 114, 99>>, <<206>>>>, (* Icirc *)
      <<<<73, 99, 105, 114, 99, 59>>, <<206>>>>, (* Icirc; *)
      <<<<73, 99, 121, 59>>, <<1048>>>>, (* Icy; *)
      <<<<73, 100, 111, 116, 59>>, <<304>>>>, (* Idot; *)
      <<<<73, 102, 114, 59>>, <<8465>>>>, (* Ifr; *)
      <<<<73, 103, 114, 97, 118, 101>>, <<204>>>>, (* Igrave *)
      <<<<73, 103, 114, 97, 118, 101, 59>>, <<204>>>>, (* Igrave; *)
      <<<<73, 109, 59>>, <<8465>>>>, (* Im; *)
      <<<<73, 109, 97, 99, 114, 59>>, <<298>>>>, (* Imacr; *)
      <<<<73, 109, 97, 103, 105, 110, 97, 114, 121, 73, 59>>, <<8520>>>>, (* ImaginaryI; *)
      <<<<73, 109, 112, 108, 105, 101, 115, 59>>, <<8658>>>>, (* Implies; *)
      <<<<73, 110, 116, 59>>, <<8748>>>>, (* Int; *)
      <<<<73, 110, 116, 101, 103, 114, 97, 108, 59>>, <<8747>>>>, (* Integral; *)
      <<<<73, 110, 116, 101, 114, 115, 101, 99, 116, 105, 111, 110, 59>>, <<8898>>>>, (* Intersection; *)
      <<<<73, 110, 118, 105, 115, 105, 98, 108, 101, 67, 111, 109, 109, 97, 59>>, <<8291>>>>, (* InvisibleComma; *)
      <<<<73, 110, 118, 105, 115, 105, 98, 108, 101, 84, 105, 109, 101, 115, 59>>, <<8290>>>>, (* InvisibleTimes; *)
      <<<<73, 111, 103, 111, 110, 59>>, <<302>>>>, (* Iogon; *)
      <<<<73, 111, 112, 102, 59>>, <<120128>>>>, (* Iopf; *)
      <<<<73, 111, 116, 97, 59>>, <<921>>>>, (* Iota; *)
      <<<<73, 115, 99, 114, 59>>, <<8464>>>>, (* Iscr; *)
      <<<<73, 116, 105, 108, 100, 101, 59>>, <<296>>>>, (* Itilde; *)
      <<<<73, 117, 107, 99, 121, 59>>, <<1030>>>>, (* Iukcy; *)
      <<<<73, 117, 109, 108>>, <<207>>>>, (* Iuml *)
      <<<<73, 117, 109, 108, 59>>, <<207>>>>, (* Iuml; *)
      <<<<74, 99, 105, 114, 99, 59>>, <<308>>>>, (* Jcirc; *)
      <<<<74, 99, 121, 59>>, <<1049>>>>, (* Jcy; *)
      <<<<74, 102, 114, 59>>, <<120077>>>>, (* Jfr; *)
      <<<<74, 111, 112, 102, 59>>, <<120129>>>>, (* Jopf; *)
      <<<<74, 115, 99, 114, 59>>, <<119973>>>>, (* Jscr; *)
      <<<<74, 115, 101, 114, 99, 121, 59>>, <<1032>>>>, (* Jsercy; *)
      <<<<74, 117, 107, 99, 121, 59>>, <<1028>>>>, (* Jukcy; *)
      <<<<75, 72, 99, 121, 59>>, <<1061>>>>, (* KHcy; *)
      <<<<75, 74, 99, 121, 59>>, <<1036>>>>, (* KJcy; *)
      <<<<75, 97, 112, 112, 97, 59>>, <<922>>>>, (* Kappa; *)
      <<<<75, 99, 101, 100, 105, 108, 59>>, <<310>>>>, (* Kcedil; *)
      <<<<75, 99, 121, 59>>, <<1050>>>>, (* Kcy; *)
      <<<<75, 102, 114, 59>>, <<120078>>>>, (* Kfr; *)
      <<<<75, 111, 112, 102, 59>>, <<120130>>>>, (* Kopf; *)
      <<<<75, 115, 99, 114, 59>>, <<119974>>>>, (* Kscr; *)
      <<<<76, 74, 99, 121, 59>>, <<1033>>>>, (* LJcy; *)
      <<<<76, 84>>, <<60>>>>, (* LT *)
      <<<<76, 84, 59>>, <<60>>>>, (* LT; *)
      <<<<76, 97, 99, 117, 116, 101, 59>>, <<313>>>>, (* Lacute; *)
      <<<<76, 97, 109, 98, 100, 97, 59>>, <<923>>>>, (* Lambda; *)
      <<<<76, 97, 110, 103, 59>>, <<10218>>>>, (* Lang; *)
      <<<<76, 97, 112, 108, 97, 99, 101, 116, 114, 102, 59>>, <<8466>>>>, (* Laplacetrf; *)
      <<<<76, 97, 114, 114, 59>>, <<8606>>>>, (* Larr; *)
      <<<<76, 99, 97, 114, 111, 110, 59>>, <<317>>>>, (* Lcaron; *)
      <<<<76, 99, 101, 100, 105, 108, 59>>, <<315>>>>, (* Lcedil; *)
      <<<<76, 99, 121, 59>>, <<1051>>>>, (* Lcy; *)
      <<<<76, 101, 102, 116, 65, 110, 103, 108, 101, 66, 114, 97, 99, 107, 101, 116, 59>>, <<10216>>>>, (* LeftAngleBracket; *)
      <<<<76, 101, 102, 116, 65, 114, 114, 111, 119, 59>>, <<8592>>>>, (* LeftArrow; *)
      <<<<76, 101, 102, 116, 65, 114, 114, 111, 119, 66, 97, 114, 59>>, <<8676>>>>, (* LeftArrowBar; *)
      <<<<76, 101, 102, 116, 65, 114, 114, 111, 119, 82, 105, 103, 104, 116, 65, 114, 114, 111, 119, 59>>, <<8646>>>>, (* LeftArrowRightArrow; *)
      <<<<76, 101, 102, 116, 67, 101, 105, 108, 105, 110, 103, 59>>, <<8968>>>>, (* LeftCeiling; *)
      <<<<76, 101, 102, 116, 68, 111, 117, 98, 108, 101, 66, 114, 97, 99, 107, 101, 116, 59>>, <<10214>>>>, (* LeftDoubleBracket; *)
      <<<<76, 101, 102, 116, 68, 111, 119, 110, 84, 101, 101, 86, 101, 99, 116, 111, 114, 59>>, <<10593>>>>, (* LeftDownTeeVector; *)
      <<<<76, 101, 102, 116, 68, 111, 119, 110, 86, 101, 99, 116, 111, 114, 59>>, <<8643>>>>, (* LeftDownVector; *)
      <<<<76, 101, 102, 116, 68, 111, 119, 110, 86, 101, 99, 116, 111, 114, 66, 97, 114, 59>>, <<10585>>>>, (* LeftDownVectorBar; *)
      <<<<76, 101, 102, 116, 70, 108, 111, 111, 114, 59>>, <<8970>>>>, (* LeftFloor; *)
      <<<<76, 101, 102, 116, 82, 105, 103, 104, 116, 65, 114, 114, 111, 119, 59>>, <<8596>>>>, (* LeftRightArrow; *)
      <<<<76, 101, 102, 116, 82, 105, 103, 104, 116, 86, 101, 99, 116, 111, 114, 59>>, <<10574>>>>, (* LeftRightVector; *)
      <<<<76, 101, 102, 116, 84, 101, 101, 59>>, <<8867>>>>, (* LeftTee; *)
      <<<<76, 101, 102, 116, 84, 101, 101, 65, 114, 114, 111, 119, 59>>, <<8612>>>>, (* LeftTeeArrow; *)
      <<<<76, 101, 102, 116, 84, 101, 101, 86, 101, 99, 116, 111, 114, 59>>, <<10586>>>>, (* LeftTeeVector; *)
      <<<<76, 101, 102, 116, 84, 114, 105, 97, 110, 103, 108, 101, 59>>, <<8882>>>>, (* LeftTriangle; *)
      <<<<76, 101, 102, 116, 84, 114, 105, 97, 110, 103, 108, 101, 66, 97, 114, 59>>, <<10703>>>>, (* LeftTriangleBar; *)
      <<<<76, 101, 102, 116, 84, 114, 105, 97, 110, 103, 108, 101, 69, 113, 117, 97, 108, 59>>, <<8884>>>>, (* LeftTriangleEqual; *)
      <<<<76, 101, 102, 116, 85, 112, 68, 111, 119, 110, 86, 101, 99, 116, 111, 114, 59>>, <<10577>>>>, (* LeftUpDownVector; *)
      <<<<76, 101, 102, 116, 85, 112, 84, 101, 101, 86, 101, 99, 116, 111, 114, 59>>, <<10592>>>>, (* LeftUpTeeVector; *)
      <<<<76, 101, 102, 116, 85, 112, 86, 101, 99, 116, 111, 114, 59>>, <<8639>>>>, (* LeftUpVector; *)
      <<<<76, 101, 102, 116, 85, 112, 86, 101, 99, 116, 111, 114, 66, 97, 114, 59>>, <<10584>>>>, (* LeftUpVectorBar; *)
      <<<<76, 101, 102, 116, 86, 101, 99, 116, 111, 114, 59>>, <<8636>>>>, (* LeftVector; *)
      <<<<76, 101, 102, 116, 86, 101, 99, 116, 111, 114, 66, 97, 114, 59>>, <<10578>>>>, (* LeftVectorBar; *)
      <<<<76, 101, 102, 116, 97, 114, 114, 111, 119, 59>>, <<8656>>>>, (* Leftarrow; *)
      <<<<76, 101, 102, 116, 114, 105, 103, 104, 116, 97, 114, 114, 111, 119, 59>>, <<8660>>>>, (* Leftrightarrow; *)
      <<<<76, 101, 115, 115, 69, 113, 117, 97, 108, 71, 114, 101, 97, 116, 101, 114, 59>>, <<8922>>>>, (* LessEqualGreater; *)
      <<<<76, 101, 115, 115, 70, 117, 108, 108, 69, 113, 117, 97, 108, 59>>, <<8806>>>>, (* LessFullEqual; *)
      <<<<76, 101, 115, 115, 71, 114, 101, 97, 116, 101, 114, 59>>, <<8822>>>>, (* LessGreater; *)
      <<<<76, 101, 115, 115, 76, 101, 115, 115, 59>>, <<10913>>>>, (* LessLess; *)
      <<<<76, 101, 115, 115, 83, 108, 97, 110, 116, 69, 113, 117, 97, 108, 59>>, <<10877>>>>, (* LessSlantEqual; *)
      <<<<76, 101, 115, 115, 84, 105, 108, 100, 101, 59>>, <<8818>>>>, (* LessTilde; *)
      <<<<76, 102, 114, 59>>, <<120079>>>>, (* Lfr; *)
      <<<<76, 108, 59>>, <<8920>>>>, (* Ll; *)
      <<<<76, 108, 101, 102, 116, 97, 114, 114, 111, 119, 59>>, <<8666>>>>, (* Lleftarrow; *)
      <<<<76, 109, 105, 100, 111, 116, 59>>, <<319>>>>, (* Lmidot; *)
      <<<<76, 111, 110, 103, 76, 101, 102, 116, 65, 114, 114, 111, 119, 59>>, <<10229>>>>, (* LongLeftArrow; *)
      <<<<76, 111, 110, 103, 76, 101, 102, 116, 82, 105, 103, 104, 116, 65, 114, 114, 111, 119, 59>>, <<10231>>>>, (* LongLeftRightArrow; *)
      <<<<76, 111, 110, 103, 82, 105, 103, 104, 116, 65, 114, 114, 111, 119, 59>>, <<10230>>>>, (* LongRightArrow; *)
      <<<<76, 111, 110, 103, 108, 101, 102, 116, 97, 114, 114, 111, 119, 59>>, <<10232>>>>, (* Longleftarrow; *)
      <<<<76, 111, 110, 103, 108, 101, 102, 116, 114, 105, 103, 104, 116, 97, 114, 114, 111, 119, 59>>, <<10234>>>>, (* Longleftrightarrow; *)
      <<<<76, 111, 110, 103, 114, 105, 103, 104, 116, 97, 114, 114, 111, 119, 59>>, <<10233>>>>, (* Longrightarrow; *)
      <<<<76, 111, 112, 102, 59>>, <<120131>>>>, (* Lopf; *)
      <<<<76, 111, 119, 101, 114, 76, 101, 102, 116, 65, 114, 114, 111, 119, 59>>, <<8601>>>>, (* LowerLeftArrow; *)
      <<<<76, 111, 119, 101, 114, 82, 105, 103, 104, 116, 65, 114, 114, 111, 119, 59>>, <<8600>>>>, (* LowerRightArrow; *)
      <<<<76, 115, 99, 114, 59>>, <<8466>>>>, (* Lscr; *)
      <<<<76, 115, 104, 59>>, <<8624>>>>, (* Lsh; *)
      <<<<76, 115, 116, 114, 111, 107, 59>>, <<321>>>>, (* Lstrok; *)
      <<<<76, 116, 59>>, <<8810>>>>, (* Lt; *)
      <<<<77, 97, 112, 59>>, <<10501>>>>, (* Map; *)
      <<<<77, 99, 121, 59>>, <<1052>>>>, (* Mcy; *)
      <<<<77, 101, 100, 105, 117, 109, 83, 112, 97, 99, 101, 59>>, <<8287>>>>, (* MediumSpace; *)
      <<<<77, 101, 108, 108, 105, 110, 116, 114, 102, 59>>, <<8499>>>>, (* Mellintrf; *)
      <<<<77, 102, 114, 59>>, <<120080>>>>, (* Mfr; *)
      <<<<77, 105, 110, 117, 115, 80, 108, 117, 115, 59>>, <<8723>>>>, (* MinusPlus; *)
      <<<<77, 111, 112, 102, 59>>, <<120132>>>>, (* Mopf; *)
      <<<<77, 115, 99, 114, 59>>, <<8499>>>>, (* Mscr; *)
      <<<<77, 117, 59>>, <<924>>>>, (* Mu; *)
      <<<<78, 74, 99, 121, 59>>, <<1034>>>>, (* NJcy; *)
      <<<<78, 97, 99, 117, 116, 101, 59>>, <<323>>>>, (* Nacute; *)
      <<<<78, 99, 97, 114, 111, 110, 59>>, <<327>>>>, (* Ncaron; *)
      <<<<78, 99, 101, 100, 105, 108, 59>>, <<325>>>>, (* Ncedil; *)
      <<<<78, 99, 121, 59>>, <<1053>>>>, (* Ncy; *)
      <<<<78, 101, 103, 97, 116, 105, 118, 101, 77, 101, 100, 105, 117, 109, 83, 112, 97, 99, 101, 59>>, <<8203>>>>, (* NegativeMediumSpace; *)
      <<<<78, 101, 103, 97, 116, 105, 118, 101, 84, 104, 105, 99, 107, 83, 112, 97, 99, 101, 59>>, <<8203>>>>, (* NegativeThickSpace; *)
      <<<<78, 101, 103, 97, 116, 105, 118, 101, 84, 104, 105, 110, 83, 112, 97, 99, 101, 59>>, <<8203>>>>, (* NegativeThinSpace; *)
      <<<<78, 101, 103, 97, 116, 105, 118, 101, 86, 101, 114, 121, 84, 104, 105, 110, 83, 112, 97, 99, 101, 59>>, <<8203>>>>, (* NegativeVeryThinSpace; *)
      <<<<78, 101, 115, 116, 101, 100, 71, 114, 101, 97, 116, 101, 114, 71, 114, 101, 97, 116, 101, 114, 59>>, <<8811>>>>, (* NestedGreaterGreater; *)
      <<<<78, 101, 115, 116, 101, 100, 76, 101, 115, 115, 76, 101, 115, 115, 59>>, <<8810>>>>, (* NestedLessLess; *)
      <<<<78, 101, 119, 76, 105, 110, 101, 59>>, <<10>>>>, (* NewLine; *)
      <<<<78, 102, 114, 59>>, <<120081>>>>, (* Nfr; *)
      <<<<78, 111, 66, 114, 101, 97, 107, 59>>, <<8288>>>>, (* NoBreak; *)
      <<<<78, 111, 110, 66, 114, 101, 97, 107, 105, 110, 103, 83, 112, 97, 99, 101, 59>>, <<160>>>>, (* NonBreakingSpace; *)
      <<<<78, 111, 112, 102, 59>>, <<8469>>>>, (* Nopf; *)
      <<<<78, 111, 116, 59>>, <<10988>>>>, (* Not; *)
      <<<<78, 111, 116, 67, 111, 110, 103, 114, 117, 101, 110, 116, 59>>, <<8802>>>>, (* NotCongruent; *)
      <<<<78, 111, 116, 67, 117, 112, 67, 97, 112, 59>>, <<8813>>>>, (* NotCupCap; *)
      <<<<78, 111, 116, 68, 111, 117, 98, 108, 101, 86, 101, 114, 116, 105, 99, 97, 108, 66, 97, 114, 59>>, <<8742>>>>, (* NotDoubleVerticalBar; *)
      <<<<78, 111, 116, 69, 108, 101, 109, 101, 110, 116, 59>>, <<8713>>>>, (* NotElement; *)
      <<<<78, 111, 116, 69, 113, 117, 97, 108, 59>>, <<8800>>>>, (* NotEqual; *)
      <<<<78, 111, 116, 69, 113, 117, 97, 108, 84, 105, 108, 100, 101, 59>>, <<8770, 824>>>>, (* NotEqualTilde; *)
      <<<<78, 111, 116, 69, 120, 105, 115, 116, 115, 59>>, <<8708>>>>, (* NotExists; *)
      <<<<78, 111, 116, 71, 114, 101, 97, 116, 101, 114, 59>>, <<8815>>>>, (* NotGreater; *)
      <<<<78, 111, 116, 71, 114, 101, 97, 116, 101, 114, 69, 113, 117, 97, 108, 59>>, <<8817>>>>, (* NotGreaterEqual; *)
      <<<<78, 111, 116, 71, 114, 101, 97, 116, 101, 114, 70, 117, 108, 108, 69, 113, 117, 97, 108, 59>>, <<8807, 824>>>>, (* NotGreaterFullEqual; *)
      <<<<78, 111, 116, 71, 114, 101, 97, 116, 101, 114, 71, 114, 101, 97, 116, 101, 114, 59>>, <<8811, 824>>>>, (* NotGreaterGreater; *)
      <<<<78, 111, 116, 71, 114, 101, 97, 116, 101, 114, 76, 101, 115, 115, 59>>, <<8825>>>>, (* NotGreaterLess; *)
      <<<<78, 111, 116, 71, 114, 101, 97, 116, 101, 114, 83, 108, 97, 110, 116, 69, 113, 117, 97, 108, 59>>, <<10878, 824>>>>, (* NotGreaterSlantEqual; *)
      <<<<78, 111, 116, 71, 114, 101, 97, 116, 101, 114, 84, 105, 108, 100, 101, 59>>, <<8821>>>>, (* NotGreaterTilde; *)
      <<<<78, 111, 116, 72, 117, 109, 112, 68, 111, 119, 110, 72, 117, 109, 112, 59>>, <<8782, 824>>>>, (* NotHumpDownHump; *)
      <<<<78, 111, 116, 72, 117, 109, 112, 69, 113, 117, 97, 108, 59>>, <<8783, 824>>>>, (* NotHumpEqual; *)
      <<<<78, 111, 116, 76, 101, 102, 116, 84, 114, 105, 97, 110, 103, 108, 101, 59>>, <<8938>>>>, (* NotLeftTriangle; *)
      <<<<78, 111, 116, 76, 101, 102, 116, 84, 114, 105, 97, 110, 103, 108, 101, 66, 97, 114, 59>>, <<10703, 824>>>>, (* NotLeftTriangleBar; *)
      <<<<78, 111, 116, 76, 101, 102, 116, 84, 114, 105, 97, 110, 103, 108, 101, 69, 113, 117, 97, 108, 59>>, <<8940>>>>, (* NotLeftTriangleEqual; *)
      <<<<78, 111, 116, 76, 101, 115, 115, 59>>, <<8814>>>>, (* NotLess; *)
      <<<<78, 111, 116, 76, 101, 115, 115, 69, 113, 117, 97, 108, 59>>, <<8816>>>>, (* NotLessEqual; *)
      <<<<78, 111, 116, 76, 101, 115, 115, 71, 114, 101, 97, 116, 101, 114, 59>>, <<8824>>>>, (* NotLessGreater; *)
      <<<<78, 111, 116, 76, 101, 115, 115, 76, 101, 115, 115, 59>>, <<8810, 824>>>>, (* NotLessLess; *)
      <<<<78, 111, 116, 76, 101, 115, 115, 83, 108, 97, 110, 116, 69, 113, 117, 97, 108, 59>>, <<10877, 824>>>>, (* NotLessSlantEqual; *)
      <<<<78, 111, 116, 76, 101, 115, 115, 84, 105, 108, 100, 101, 59>>, <<8820>>>>, (* NotLessTilde; *)
      <<<<78, 111, 116, 78, 101, 115, 116, 101, 100, 71, 114, 101, 97, 116, 101, 114, 71, 114, 101, 97, 116, 101, 114, 59>>, <<10914, 824>>>>, (* NotNestedGreaterGreater; *)
      <<<<78, 111, 116, 78, 101, 115, 116, 101, 100, 76, 101, 115, 115, 76, 101, 115, 115, 59>>, <<10913, 824>>>>, (* NotNestedLessLess; *)
      <<<<78, 111, 116, 80, 114, 101, 99, 101, 100, 101, 115, 59>>, <<8832>>>>, (* NotPrecedes; *)
      <<<<78, 111, 116, 80, 114, 101, 99, 101, 100, 101, 115, 69, 113, 117, 97, 108, 59>>, <<10927, 824>>>>, (* NotPrecedesEqual; *)
      <<<<78, 111, 116, 80, 114, 101, 99, 101, 100, 101, 115, 83, 108, 97, 110, 116, 69, 113, 117, 97, 108, 59>>, <<8928>>>>, (* NotPrecedesSlantEqual; *)
      <<<<78, 111, 116, 82, 101, 118, 101, 114, 115, 101, 69, 108, 101, 109, 101, 110, 116, 59>>, <<8716>>>>, (* NotReverseElement; *)
      <<<<78, 111, 116, 82, 105, 103, 104, 116, 84, 114, 105, 97, 110, 103, 108, 101, 59>>, <<8939>>>>, (* NotRightTriangle; *)
      <<<<78, 111, 116, 82, 105, 103, 104, 116, 84, 114, 105, 97, 110, 103, 108, 101, 66, 97, 114, 59>>, <<10704, 824>>>>, (* NotRightTriangleBar; *)
      <<<<78, 111, 116, 82, 105, 103, 104, 116, 84, 114, 105, 97, 110, 103, 108, 101, 69, 113, 117, 97, 108, 59>>, <<8941>>>>, (* NotRightTriangleEqual; *)
      <<<<78, 111, 116, 83, 113, 117, 97, 114, 101, 83, 117, 98, 115, 101, 116, 59>>, <<8847, 824>>>>, (* NotSquareSubset; *)
      <<<<78, 111, 116, 83, 113, 117, 97, 114, 101, 83, 117, 98, 115, 101, 116, 69, 113, 117, 97, 108, 59>>, <<8930>>>>, (* NotSquareSubsetEqual; *)
      <<<<78, 111, 116, 83, 113, 117, 97, 114, 101, 83, 117, 112, 101, 114, 115, 101, 116, 59>>, <<8848, 824>>>>, (* NotSquareSuperset; *)
      <<<<78, 111, 116, 83, 113, 117, 97, 114, 101, 83, 117, 112, 101, 114, 115, 101, 116, 69, 113, 117, 97, 108, 59>>, <<8931>>>>, (* NotSquareSupersetEqual; *)
      <<<<78, 111, 116, 83, 117, 98, 115, 101, 116, 59>>, <<8834, 8402>>>>, (* NotSubset; *)
      <<<<78, 111, 116, 83, 117, 98, 115, 101, 116, 69, 113, 117, 97, 108, 59>>, <<8840>>>>, (* NotSubsetEqual; *)
      <<<<78, 111, 116, 83, 117, 99, 99, 101, 101, 100, 115, 59>>, <<8833>>>>, (* NotSucceeds; *)
      <<<<78, 111, 116, 83, 117, 99, 99, 101, 101, 100, 115, 69, 113, 117, 97, 108, 59>>, <<10928, 824>>>>, (* NotSucceedsEqual; *)
      <<<<78, 111, 116, 83, 117, 99, 99, 101, 101, 100, 115, 83, 108, 97, 110, 116, 69, 113, 117, 97, 108, 59>>, <<8929>>>>, (* NotSucceedsSlantEqual; *)
      <<<<78, 111, 116, 83, 117, 99, 99, 101, 101, 100, 115, 84, 105, 108, 100, 101, 59>>, <<8831, 824>>>>, (* NotSucceedsTilde; *)
      <<<<78, 111, 116, 83, 117, 112, 101, 114, 115, 101, 116, 59>>, <<8835, 8402>>>>, (* NotSuperset; *)
      <<<<78, 111, 116, 83, 117, 112, 101, 114, 115, 101, 116, 69, 113, 117, 97, 108, 59>>, <<8841>>>>, (* NotSupersetEqual; *)
      <<<<78, 111, 116, 84, 105, 108, 100, 101, 59>>, <<8769>>>>, (* NotTilde; *)
      <<<<78, 111, 116, 84, 105, 108, 100, 101, 69, 113, 117, 97, 108, 59>>, <<8772>>>>, (* NotTildeEqual; *)
      <<<<78, 111, 116, 84, 105, 108, 100, 101, 70, 117, 108, 108, 69, 113, 117, 97, 108, 59>>, <<8775>>>>, (* NotTildeFullEqual; *)
      <<<<78, 111, 116, 84, 105, 108, 100, 101, 84, 105, 108, 100, 101, 59>>, <<8777>>>>, (* NotTildeTilde; *)
      <<<<78, 111, 116, 86, 101, 114, 116, 105, 99, 97, 108, 66, 97, 114, 59>>, <<8740>>>>, (* NotVerticalBar; *)
      <<<<78, 115, 99, 114, 59>>, <<119977>>>>, (* Nscr; *)
      <<<<78, 116, 105, 108, 100, 101>>, <<209>>>>, (* Ntilde *)
      <<<<78, 116, 105, 108, 100, 101, 59>>, <<209>>>>, (* Ntilde; *)
      <<<<78, 117, 59>>, <<925>>>>, (* Nu; *)
      <<<<79, 69, 108, 105, 103, 59>>, <<338>>>>, (* OElig; *)
      <<<<79, 97, 99, 117, 116, 101>>, <<211>>>>, (* Oacute *)
      <<<<79, 97, 99, 117, 116, 101, 59>>, <<211>>>>, (* Oacute; *)
      <<<<79, 99, 105, 114, 99>>, <<212>>>>, (* Ocirc *)
      <<<<79, 99, 105, 114, 99, 59>>, <<212>>>>, (* Ocirc; *)
      <<<<79, 99, 121, 59>>, <<1054>>>>, (* Ocy; *)
      <<<<79, 100, 98, 108, 97, 99, 59>>, <<336>>>>, (* Odblac; *)
      <<<<79, 102, 114, 59>>, <<120082>>>>, (* Ofr; *)
      <<<<79, 103, 114, 97, 118, 101>>, <<210>>>>, (* Ograve *)
      <<<<79, 103, 114, 97, 118, 101, 59>>, <<210>>>>, (* Ograve; *)
      <<<<79, 109, 97, 99, 114, 59>>, <<332>>>>, (* Omacr; *)
      <<<<79, 109, 101, 103, 97, 59>>, <<937>>>>, (* Omega; *)
      <<<<79, 109, 105, 99, 114, 111, 110, 59>>, <<927>>>>, (* Omicron; *)
      <<<<79, 111, 112, 102, 59>>, <<120134>>>>, (* Oopf; *)
      <<<<79, 112, 101, 110, 67, 117, 114, 108, 121, 68, 111, 117, 98, 108, 101, 81, 117, 111, 116, 101, 59>>, <<8220>>>>, (* OpenCurlyDoubleQuote; *)
      <<<<79, 112, 101, 110, 67, 117, 114, 108, 121, 81, 117, 111, 116, 101, 59>>, <<8216>>>>, (* OpenCurlyQuote; *)
      <<<<79, 114, 59>>, <<10836>>>>, (* Or; *)
      <<<<79, 115, 99, 114, 59>>, <<119978>>>>, (* Oscr; *)
      <<<<79, 115, 108, 97, 115, 104>>, <<216>>>>, (* Oslash *)
      <<<<79, 115, 108, 97, 115, 104, 59>>, <<216>>>>, (* Oslash; *)
      <<<<79, 116, 105, 108, 100, 101>>, <<213>>>>, (* Otilde *)
      <<<<79, 116, 105, 108, 100, 101, 59>>, <<213>>>>, (* Otilde; *)
      <<<<79, 116, 105, 109, 101, 115, 59>>, <<10807>>>>, (* Otimes; *)
      <<<<79, 117, 109, 108>>, <<214>>>>, (* Ouml *)
      <<<<79, 117, 109, 108, 59>>, <<214>>>>, (* Ouml; *)
      <<<<79, 118, 101, 114, 66, 97, 114, 59>>, <<8254>>>>, (* OverBar; *)
      <<<<79, 118, 101, 114, 66, 114, 97, 99, 101, 59>>, <<9182>>>>, (* OverBrace; *)
      <<<<79, 118, 101, 114, 66, 114, 97, 99, 107, 101, 116, 59>>, <<9140>>>>, (* OverBracket; *)
      <<<<79, 118, 101, 114, 80, 97, 114, 101, 110, 116, 104, 101, 115, 105, 115, 59>>, <<9180>>>>, (* OverParenthesis; *)
      <<<<80, 97, 114, 116, 105, 97, 108, 68, 59>>, <<8706>>>>, (* PartialD; *)
      <<<<80, 99, 121, 59>>, <<1055>>>>, (* Pcy; *)
      <<<<80, 102, 114, 59>>, <<120083>>>>, (* Pfr; *)
      <<<<80, 104, 105, 59>>, <<934>>>>, (* Phi; *)
      <<<<80, 105, 59>>, <<928>>>>, (* Pi; *)
      <<<<80, 108, 117, 115, 77, 105, 110, 117, 115, 59>>, <<177>>>>, (* PlusMinus; *)
      <<<<80, 111, 105, 110, 99, 97, 114, 101, 112, 108, 97, 110, 101, 59>>, <<8460>>>>, (* Poincareplane; *)
      <<<<80, 111, 112, 102, 59>>, <<8473>>>>, (* Popf; *)
      <<<<80, 114, 59>>, <<10939>>>>, (* Pr; *)
      <<<<80, 114, 101, 99, 101, 100, 101, 115, 59>>, <<8826>>>>, (* Precedes; *)
      <<<<80, 114, 101, 99, 101, 100, 101, 115, 69, 113, 117, 97, 108, 59>>, <<10927>>>>, (* PrecedesEqual; *)
      <<<<80, 114, 101, 99, 101, 100, 101, 115, 83, 108, 97, 110, 116, 69, 113, 117, 97, 108, 59>>, <<8828>>>>, (* PrecedesSlantEqual; *)
      <<<<80, 114, 101, 99, 101, 100, 101, 115, 84, 105, 108, 100, 101, 59>>, <<8830>>>>, (* PrecedesTilde; *)
      <<<<80, 114, 105, 109, 101, 59>>, <<8243>>>>, (* Prime; *)
      <<<<80, 114, 111, 100, 117, 99, 116, 59>>, <<8719>>>>, (* Product; *)
      <<<<80, 114, 111, 112, 111, 114, 116, 105, 111, 110, 59>>, <<8759>>>>, (* Proportion; *)
      <<<<80, 114, 111, 112, 111, 114, 116, 105, 111, 110, 97, 108, 59>>, <<8733>>>>, (* Proportional; *)
      <<<<80, 115, 99, 114, 59>>, <<119979>>>>, (* Pscr; *)
      <<<<80, 115, 105, 59>>, <<936>>>>, (* Psi; *)
      <<<<81, 85, 79, 84>>, <<34>>>>, (* QUOT *)
      <<<<81, 85, 79, 84, 59>>, <<34>>>>, (* QUOT; *)
      <<<<81, 102, 114, 59>>, <<120084>>>>, (* Qfr; *)
      <<<<81, 111, 112, 102, 59>>, <<8474>>>>, (* Qopf; *)
      <<<<81, 115, 99, 114, 59>>, <<119980>>>>, (* Qscr; *)
      <<<<82, 66, 97, 114, 114, 59>>, <<10512>>>>, (* RBarr; *)
      <<<<82, 69, 71>>, <<174>>>>, (* REG *)
      <<<<82, 69, 71, 59>>, <<174>>>>, (* REG; *)
      <<<<82, 97, 99, 117, 116, 101, 59>>, <<340>>>>, (* Racute; *)
      <<<<82, 97, 110, 103, 59>>, <<10219>>>>, (* Rang; *)
      <<<<82, 97, 114, 114, 59>>, <<8608>>>>, (* Rarr; *)
      <<<<82, 97, 114, 114, 116, 108, 59>>, <<10518>>>>, (* Rarrtl; *)
      <<<<82, 99, 97, 114, 111, 110, 59>>, <<344>>>>, (* Rcaron; *)
      <<<<82, 99, 101, 100, 105, 108, 59>>, <<342>>>>, (* Rcedil; *)
      <<<<82, 99, 121, 59>>, <<1056>>>>, (* Rcy; *)
      <<<<82, 101, 59>>, <<8476>>>>, (* Re; *)
      <<<<82, 101, 118, 101, 114, 115, 101, 69, 108, 101, 109, 101, 110, 116, 59>>, <<8715>>>>, (* ReverseElement; *)
      <<<<82, 101, 118, 101, 114, 115, 101, 69, 113, 117, 105, 108, 105, 98, 114, 105, 117, 109, 59>>, <<8651>>>>, (* ReverseEquilibrium; *)
      <<<<82, 101, 118, 101, 114, 115, 101, 85, 112, 69, 113, 117, 105, 108, 105, 98, 114, 105, 117, 109, 59>>, <<10607>>>>, (* ReverseUpEquilibrium; *)
      <<<<82, 102, 114, 59>>, <<8476>>>>, (* Rfr; *)
      <<<<82, 104, 111, 59>>, <<929>>>>, (* Rho; *)
      <<<<82, 105, 103, 104, 116, 65, 110, 103, 108, 101, 66, 114, 97, 99, 107, 101, 116, 59>>, <<10217>>>>, (* RightAngleBracket; *)
      <<<<82, 105, 103, 104, 116, 65, 114, 114, 111, 119, 59>>, <<8594>>>>, (* RightArrow; *)
      <<<<82, 105, 103, 104, 116, 65, 114, 114, 111, 119, 66, 97, 114, 59>>, <<8677>>>>, (* RightArrowBar; *)
      <<<<82, 105, 103, 104, 116, 65, 114, 114, 111, 119, 76, 101, 102, 116, 65, 114, 114, 111, 119, 59>>, <<8644>>>>, (* RightArrowLeftArrow; *)
      <<<<82, 105, 103, 104, 116, 67, 101, 105, 108, 105, 110, 103, 59>>, <<8969>>>>, (* RightCeiling; *)
      <<<<82, 105, 103, 104, 116, 68, 111, 117, 98, 108, 101, 66, 114, 97, 99, 107, 101, 116, 59>>, <<10215>>>>, (* RightDoubleBracket; *)
      <<<<82, 105, 103, 104, 116, 68, 111, 119, 110, 84, 101, 101, 86, 101, 99, 116, 111, 114, 59>>, <<10589>>>>, (* RightDownTeeVector; *)
      <<<<82, 105, 103, 104, 116, 68, 111, 119, 110, 86, 101, 99, 116, 111, 114, 59>>, <<8642>>>>, (* RightDownVector; *)
      <<<<82, 105, 103, 104, 116, 68, 111, 119, 110, 86, 101, 99, 116, 111, 114, 66, 97, 114, 59>>, <<10581>>>>, (* RightDownVectorBar; *)
      <<<<82, 105, 103, 104, 116, 70, 108, 111, 111, 114, 59>>, <<8971>>>>, (* RightFloor; *)
      <<<<82, 105, 103, 104, 116, 84, 101, 101, 59>>, <<8866>>>>, (* RightTee; *)
      <<<<82, 105, 103, 104, 116, 84, 101, 101, 65, 114, 114, 111, 119, 59>>, <<8614>>>>, (* RightTeeArrow; *)
      <<<<82, 105, 103, 104, 116, 84, 101, 101, 86, 101, 99, 116, 111, 114, 59>>, <<10587>>>>, (* RightTeeVector; *)
      <<<<82, 105, 103, 104, 116, 84, 114, 105, 97, 110, 103, 108, 101, 59>>, <<8883>>>>, (* RightTriangle; *)
      <<<<82, 105, 103, 104, 116, 84, 114, 105, 97, 110, 103, 108, 101, 66, 97, 114, 59>>, <<10704>>>>, (* RightTriangleBar; *)
      <<<<82, 105, 103, 104, 116, 84, 114, 105, 97, 110, 103, 108, 101, 69, 113, 117, 97, 108, 59>>, <<8885>>>>, (* RightTriangleEqual; *)
      <<<<82, 105, 103, 104, 116, 85, 112, 68, 111, 119, 110, 86, 101, 99, 116, 111, 114, 59>>, <<10575>>>>, (* RightUpDownVector; *)
      <<<<82, 105, 103, 104, 116, 85, 112, 84, 101, 101, 86, 101, 99, 116, 111, 114, 59>>, <<10588>>>>, (* RightUpTeeVector; *)
      <<<<82, 105, 103, 104, 116, 85, 112, 86, 101, 99, 116, 111, 114, 59>>, <<8638>>>>, (* RightUpVector; *)
      <<<<82, 105, 103, 104, 116, 85, 112, 86, 101, 99, 116, 111, 114, 66, 97, 114, 59>>, <<10580>>>>, (* RightUpVectorBar; *)
      <<<<82, 105, 103, 104, 116, 86, 101, 99, 116, 111, 114, 59>>, <<8640>>>>, (* RightVector; *)
      <<<<82, 105, 103, 104, 116, 86, 101, 99, 116, 111, 114, 66, 97, 114, 59>>, <<10579>>>>, (* RightVectorBar; *)
      <<<<82, 105, 103, 104, 116, 97, 114, 114, 111, 119, 59>>, <<8658>>>>, (* Rightarrow; *)
      <<<<82, 111, 112, 102, 59>>, <<8477>>>>, (* Ropf; *)
      <<<<82, 111, 117, 110, 100, 73, 109, 112, 108, 105, 101, 115, 59>>, <<10608>>>>, (* RoundImplies; *)
      <<<<82, 114, 105, 103, 104, 116, 97, 114, 114, 111, 119, 59>>, <<8667>>>>, (* Rrightarrow; *)
      <<<<82, 115, 99, 114, 59>>, <<8475>>>>, (* Rscr; *)
      <<<<82, 115, 104, 59>>, <<8625>>>>, (* Rsh; *)
      <<<<82, 117, 108, 101, 68, 101, 108, 97, 121, 101, 100, 59>>, <<10740>>>>, (* RuleDelayed; *)
      <<<<83, 72, 67, 72, 99, 121, 59>>, <<1065>>>>, (* SHCHcy; *)
      <<<<83, 72, 99, 121, 59>>, <<1064>>>>, (* SHcy; *)
      <<<<83, 79, 70, 84, 99, 121, 59>>, <<1068>>>>, (* SOFTcy; *)
      <<<<83, 97, 99, 117, 116, 101, 59>>, <<346>>>>, (* Sacute; *)
      <<<<83, 99, 59>>, <<10940>>>>, (* Sc; *)
      <<<<83, 99, 97, 114, 111, 110, 59>>, <<352>>>>, (* Scaron; *)
      <<<<83, 99, 101, 100, 105, 108, 59>>, <<350>>>>, (* Scedil; *)
      <<<<83, 99, 105, 114, 99, 59>>, <<348>>>>, (* Scirc; *)
      <<<<83, 99, 121, 59>>, <<1057>>>>, (* Scy; *)
      <<<<83, 102, 114, 59>>, <<120086>>>>, (* Sfr; *)
      <<<<83, 104, 111, 114, 116, 68, 111, 119, 110, 65, 114, 114, 111, 119, 59>>, <<8595>>>>, (* ShortDownArrow; *)
      <<<<83, 104, 111, 114, 116, 76, 101, 102, 116, 65, 114, 114, 111, 119, 59>>, <<8592>>>>, (* ShortLeftArrow; *)
      <<<<83, 104, 111, 114, 116, 82, 105, 103, 104, 116, 65, 114, 114, 111, 119, 59>>, <<8594>>>>, (* ShortRightArrow; *)
      <<<<83, 104, 111, 114, 116, 85, 112, 65, 114, 114, 111, 119, 59>>, <<8593>>>>, (* ShortUpArrow; *)
      <<<<83, 105, 103, 109, 97, 59>>, <<931>>>>, (* Sigma; *)
      <<<<83, 109, 97, 108, 108, 67, 105, 114, 99, 108, 101, 59>>, <<8728>>>>, (* SmallCircle; *)
      <<<<83, 111, 112, 102, 59>>, <<120138>>>>, (* Sopf; *)
      <<<<83, 113, 114, 116, 59>>, <<8730>>>>, (* Sqrt; *)
      <<<<83, 113, 117, 97, 114, 101, 59>>, <<9633>>>>, (* Square; *)
      <<<<83, 113, 117, 97, 114, 101, 73, 110, 116, 101, 114, 115, 101, 99, 116, 105, 111, 110, 59>>, <<8851>>>>, (* SquareIntersection; *)
      <<<<83, 113, 117, 97, 114, 101, 83, 117, 98, 115, 101, 116, 59>>, <<8847>>>>, (* SquareSubset; *)
      <<<<83, 113, 117, 97, 114, 101, 83, 117, 98, 115, 101, 116, 69, 113, 117, 97, 108, 59>>, <<8849>>>>, (* SquareSubsetEqual; *)
      <<<<83, 113, 117, 97, 114, 101, 83, 117, 112, 101, 114, 115, 101, 116, 59>>, <<8848>>>>, (* SquareSuperset; *)
      <<<<83, 113, 117, 97, 114, 101, 83, 117, 112, 101, 114, 115, 101, 116, 69, 113, 117, 97, 108, 59>>, <<8850>>>>, (* SquareSupersetEqual; *)
      <<<<83, 113, 117, 97, 114, 101, 85, 110, 105, 111, 110, 59>>, <<8852>>>>, (* SquareUnion; *)
      <<<<83, 115, 99, 114, 59>>, <<119982>>>>, (* Sscr; *)
      <<<<83, 116, 97, 114, 59>>, <<8902>>>>, (* Star; *)
      <<<<83, 117, 98, 59>>, <<8912>>>>, (* Sub; *)
      <<<<83, 117, 98, 115, 101, 116, 59>>, <<8912>>>>, (* Subset; *)
      <<<<83, 117, 98, 115, 101, 116, 69, 113, 117, 97, 108, 59>>, <<8838>>>>, (* SubsetEqual; *)
      <<<<83, 117, 99, 99, 101, 101, 100, 115, 59>>, <<8827>>>>, (* Succeeds; *)
      <<<<83, 117, 99, 99, 101, 101, 100, 115, 69, 113, 117, 97, 108, 59>>, <<10928>>>>, (* SucceedsEqual; *)
      <<<<83, 117, 99, 99, 101, 101, 100, 115, 83, 108, 97, 110, 116, 69, 113, 117, 97, 108, 59>>, <<8829>>>>, (* SucceedsSlantEqual; *)
      <<<<83, 117, 99, 99, 101, 101, 100, 115, 84, 105, 108, 100, 101, 59>>, <<8831>>>>, (* SucceedsTilde; *)
      <<<<83, 117, 99, 104, 84, 104, 97, 116, 59>>, <<8715>>>>, (* SuchThat; *)
      <<<<83, 117, 109, 59>>, <<8721>>>>, (* Sum; *)
      <<<<83, 117, 112, 59>>, <<8913>>>>, (* Sup; *)
      <<<<83, 117, 112, 101, 114, 115, 101, 116, 59>>, <<8835>>>>, (* Superset; *)
      <<<<83, 117, 112, 101, 114, 115, 101, 116, 69, 113, 117, 97, 108, 59>>, <<8839>>>>, (* SupersetEqual; *)
      <<<<83, 117, 112, 115, 101, 116, 59>>, <<8913>>>>, (* Supset; *)
      <<<<84, 72, 79, 82, 78>>, <<222>>>>, (* THORN *)
      <<<<84, 72, 79, 82, 78, 59>>, <<222>>>>, (* THORN; *)
      <<<<84, 82, 65, 68, 69, 59>>, <<8482>>>>, (* TRADE; *)
      <<<<84, 83, 72, 99, 121, 59>>, <<1035>>>>, (* TSHcy; *)
      <<<<84, 83, 99, 121, 59>>, <<1062>>>>, (* TScy; *)
      <<<<84, 97, 98, 59>>, <<9>>>>, (* Tab; *)
      <<<<84, 97, 117, 59>>, <<932>>>>, (* Tau; *)
      <<<<84, 99, 97, 114, 111, 110, 59>>, <<356>>>>, (* Tcaron; *)
      <<<<84, 99, 101, 100, 105, 108, 59>>, <<354>>>>, (* Tcedil; *)
      <<<<84, 99, 121, 59>>, <<1058>>>>, (* Tcy; *)
      <<<<84, 102, 114, 59>>, <<120087>>>>, (* Tfr; *)
      <<<<84, 104, 101, 114, 101, 102, 111, 114, 101, 59>>, <<8756>>>>, (* Therefore; *)
      <<<<84, 104, 101, 116, 97, 59>>, <<920>>>>, (* Theta; *)
      <<<<84, 104, 105, 99, 107, 83, 112, 97, 99, 101, 59>>, <<8287, 8202>>>>, (* ThickSpace; *)
      <<<<84, 104, 105, 110, 83, 112, 97, 99, 101, 59>>, <<8201>>>>, (* ThinSpace; *)
      <<<<84, 105, 108, 100, 101, 59>>, <<8764>>>>, (* Tilde; *)
      <<<<84, 105, 108, 100, 101, 69, 113, 117, 97, 108, 59>>, <<8771>>>>, (* TildeEqual; *)
      <<<<84, 105, 108, 100, 101, 70, 117, 108, 108, 69, 113, 117, 97, 108, 59>>, <<8773>>>>, (* TildeFullEqual; *)
      <<<<84, 105, 108, 100, 101, 84, 105, 108, 100, 101, 59>>, <<8776>>>>, (* TildeTilde; *)
      <<<<84, 111, 112, 102, 59>>, <<120139>>>>, (* Topf; *)
      <<<<84, 114, 105, 112, 108, 101, 68, 111, 116, 59>>, <<8411>>>>, (* TripleDot; *)
      <<<<84, 115, 99, 114, 59>>, <<119983>>>>, (* Tscr; *)
      <<<<84, 115, 116, 114, 111, 107, 59>>, <<358>>>>, (* Tstrok; *)
      <<<<85, 97, 99, 117, 116, 101>>, <<218>>>>, (* Uacute *)
      <<<<85, 97, 99, 117, 116, 101, 59>>, <<218>>>>, (* Uacute; *)
      <<<<85, 97, 114, 114, 59>>, <<8607>>>>, (* Uarr; *)
      <<<<85, 97, 114, 114, 111, 99, 105, 114, 59>>, <<10569>>>>, (* Uarrocir; *)
      <<<<85, 98, 114, 99, 121, 59>>, <<1038>>>>, (* Ubrcy; *)
      <<<<85, 98, 114, 101, 118, 101, 59>>, <<364>>>>, (* Ubreve; *)
      <<<<85, 99, 105, 114, 99>>, <<219>>>>, (* Ucirc *)
      <<<<85, 99, 105, 114, 99, 59>>, <<219>>>>, (* Ucirc; *)
      <<<<85, 99, 121, 59>>, <<1059>>>>, (* Ucy; *)
      <<<<85, 100, 98, 108, 97, 99, 59>>, <<368>>>>, (* Udblac; *)
      <<<<85, 102, 114, 59>>, <<120088>>>>, (* Ufr; *)
      <<<<85, 103, 114, 97, 118, 101>>, <<217>>>>, (* Ugrave *)
      <<<<85, 103, 114, 97, 118, 101, 59>>, <<217>>>>, (* Ugrave; *)
      <<<<85, 109, 97, 99, 114, 59>>, <<362>>>>, (* Umacr; *)
      <<<<85, 110, 100, 101, 114, 66, 97, 114, 59>>, <<95>>>>, (* UnderBar; *)
      <<<<85, 110, 100, 101, 114, 66, 114, 97, 99, 101, 59>>, <<9183>>>>, (* UnderBrace; *)
      <<<<85, 110, 100, 101, 114, 66, 114, 97, 99, 107, 101, 116, 59>>, <<9141>>>>, (* UnderBracket; *)
      <<<<85, 110, 100, 101, 114, 80, 97, 114, 101, 110, 116, 104, 101, 115, 105, 115, 59>>, <<9181>>>>, (* UnderParenthesis; *)
      <<<<85, 110, 105, 111, 110, 59>>, <<8899>>>>, (* Union; *)
      <<<<85, 110, 105, 111, 110, 80, 108, 117, 115, 59>>, <<8846>>>>, (* UnionPlus; *)
      <<<<85, 111, 103, 111, 110, 59>>, <<370>>>>, (* Uogon; *)
      <<<<85, 111, 112, 102, 59>>, <<120140>>>>, (* Uopf; *)
      <<<<85, 112, 65, 114, 114, 111, 119, 59>>, <<8593>>>>, (* UpArrow; *)
      <<<<85, 112, 65, 114, 114, 111, 119, 66, 97, 114, 59>>, <<10514>>>>, (* UpArrowBar; *)
      <<<<85, 112, 65, 114, 114, 111, 119, 68, 111, 119, 110, 65, 114, 114, 111, 119, 59>>, <<8645>>>>, (* UpArrowDownArrow; *)
      <<<<85, 112, 68, 111, 119, 110, 65, 114, 114, 111, 119, 59>>, <<8597>>>>, (* UpDownArrow; *)
      <<<<85, 112, 69, 113, 117, 105, 108, 105, 98, 114, 105, 117, 109, 59>>, <<10606>>>>, (* UpEquilibrium; *)
      <<<<85, 112, 84, 101, 101, 59>>, <<8869>>>>, (* UpTee; *)
      <<<<85, 112, 84, 101, 101, 65, 114, 114, 111, 119, 59>>, <<8613>>>>, (* UpTeeArrow; *)
      <<<<85, 112, 97, 114, 114, 111, 119, 59>>, <<8657>>>>, (* Uparrow; *)
      <<<<85, 112, 100, 111, 119, 110, 97, 114, 114, 111, 119, 59>>, <<8661>>>>, (* Updownarrow; *)
      <<<<85, 112, 112, 101, 114, 76, 101, 102, 116, 65, 114, 114, 111, 119, 59>>, <<8598>>>>, (* UpperLeftArrow; *)
      <<<<85, 112, 112, 101, 114, 82, 105, 103, 104, 116, 65, 114, 114, 111, 119, 59>>, <<8599>>>>, (* UpperRightArrow; *)
      <<<<85, 112, 115, 105, 59>>, <<978>>>>, (* Upsi; *)
      <<<<85, 112, 115, 105, 108, 111, 110, 59>>, <<933>>>>, (* Upsilon; *)
      <<<<85, 114, 105, 110, 103, 59>>, <<366>>>>, (* Uring; *)
      <<<<85, 115, 99, 114, 59>>, <<119984>>>>, (* Uscr; *)
      <<<<85, 116, 105, 108, 100, 101, 59>>, <<360>>>>, (* Utilde; *)
      <<<<85, 117, 109, 108>>, <<220>>>>, (* Uuml *)
      <<<<85, 117, 109, 108, 59>>, <<220>>>>, (* Uuml; *)
      <<<<86, 68, 97, 115, 104, 59>>, <<8875>>>>, (* VDash; *)
      <<<<86, 98, 97, 114, 59>>, <<10987>>>>, (* Vbar; *)
      <<<<86, 99, 121, 59>>, <<1042>>>>, (* Vcy; *)
      <<<<86, 100, 97, 115, 104, 59>>, <<8873>>>>, (* Vdash; *)
      <<<<86, 100, 97, 115, 104, 108, 59>>, <<10982>>>>, (* Vdashl; *)
      <<<<86, 101, 101, 59>>, <<8897>>>>, (* Vee; *)
      <<<<86, 101, 114, 98, 97, 114, 59>>, <<8214>>>>, (* Verbar; *)
      <<<<86, 101, 114, 116, 59>>, <<8214>>>>, (* Vert; *)
      <<<<86, 101, 114, 116, 105, 99, 97, 108, 66, 97, 114, 59>>, <<8739>>>>, (* VerticalBar; *)
      <<<<86, 101, 114, 116, 105, 99, 97, 108, 76, 105, 110, 101, 59>>, <<124>>>>, (* VerticalLine; *)
      <<<<86, 101, 114, 116, 105, 99, 97, 108, 83, 101, 112, 97, 114, 97, 116, 111, 114, 59>>, <<10072>>>>, (* VerticalSeparator; *)
      <<<<86, 101, 114, 116, 105, 99, 97, 108, 84, 105, 108, 100, 101, 59>>, <<8768>>>>, (* VerticalTilde; *)
      <<<<86, 101, 114, 121, 84, 104, 105, 110, 83, 112, 97, 99, 101, 59>>, <<8202>>>>, (* VeryThinSpace; *)
      <<<<86, 102, 114, 59>>, <<120089>>>>, (* Vfr; *)
      <<<<86, 111, 112, 102, 59>>, <<120141>>>>, (* Vopf; *)
      <<<<86, 115, 99, 114, 59>>, <<119985>>>>, (* Vscr; *)
      <<<<86, 118, 100, 97, 115, 104, 59>>, <<8874>>>>, (* Vvdash; *)
      <<<<87, 99, 105, 114, 99, 59>>, <<372>>>>, (* Wcirc; *)
      <<<<87, 101, 100, 103, 101, 59>>, <<8896>>>>, (* Wedge; *)
      <<<<87, 102, 114, 59>>, <<120090>>>>, (* Wfr; *)
      <<<<87, 111, 112, 102, 59>>, <<120142>>>>, (* Wopf; *)
      <<<<87, 115, 99, 114, 59>>, <<119986>>>>, (* Wscr; *)
      <<<<88, 102, 114, 59>>, <<120091>>>>, (* Xfr; *)
      <<<<88, 105, 59>>, <<926>>>>, (* Xi; *)
      <<<<88, 111, 112, 102, 59>>, <<120143>>>>, (* Xopf; *)
      <<<<88, 115, 99, 114, 59>>, <<119987>>>>, (* Xscr; *)
      <<<<89, 65, 99, 121, 59>>, <<1071>>>>, (* YAcy; *)
      <<<<89, 73, 99, 121, 59>>, <<1031>>>>, (* YIcy; *)
      <<<<89, 85, 99, 121, 59>>, <<1070>>>>, (* YUcy; *)
      <<<<89, 97, 99, 117, 116, 101>>, <<221>>>>, (* Yacute *)
      <<<<89, 97, 99, 117, 116, 101, 59>>, <<221>>>>, (* Yacute; *)
      <<<<89, 99, 105, 114, 99, 59>>, <<374>>>>, (* Ycirc; *)
      <<<<89, 99, 121, 59>>, <<1067>>>>, (* Ycy; *)
      <<<<89, 102, 114, 59>>, <<120092>>>>, (* Yfr; *)
      <<<<89, 111, 112, 102, 59>>, <<120144>>>>, (* Yopf; *)
      <<<<89, 115, 99, 114, 59>>, <<119988>>>>, (* Yscr; *)
      <<<<89, 117, 109, 108, 59>>, <<376>>>>, (* Yuml; *)
      <<<<90, 72, 99, 121, 59>>, <<1046>>>>, (* ZHcy; *)
      <<<<90, 97, 99, 117, 116, 101, 59>>, <<377>>>>, (* Zacute; *)
      <<<<90, 99, 97, 114, 111, 110, 59>>, <<381>>>>, (* Zcaron; *)
      <<<<90, 99, 121, 59>>, <<1047>>>>, (* Zcy; *)
      <<<<90, 100, 111, 116, 59>>, <<379>>>>, (* Zdot; *)
      <<<<90, 101, 114, 111, 87, 105, 100, 116, 104, 83, 112, 97, 99, 101, 59>>, <<8203>>>>, (* ZeroWidthSpace; *)
      <<<<90, 101, 116, 97, 59>>, <<918>>>>, (* Zeta; *)
      <<<<90, 102, 114, 59>>, <<8488>>>>, (* Zfr; *)
      <<<<90, 111, 112, 102, 59>>, <<8484>>>>, (* Zopf; *)
      <<<<90, 115, 99, 114, 59>>, <<119989>>>>, (* Zscr; *)
      <<<<97, 97, 99, 117, 116, 101>>, <<225>>>>, (* aacute *)
      <<<<97, 97, 99, 117, 116, 101, 59>>, <<225>>>>, (* aacute; *)
      <<<<97, 98, 114, 101, 118, 101, 59>>, <<259>>>>, (* abreve; *)
      <<<<97, 99, 59>>, <<8766>>>>, (* ac; *)
      <<<<97, 99, 69, 59>>, <<8766, 819>>>>, (* acE; *)
      <<<<97, 99, 100, 59>>, <<8767>>>>, (* acd; *)
      <<<<97, 99, 105, 114, 99>>, <<226>>>>, (* acirc *)
      <<<<97, 99, 105, 114, 99, 59>>, <<226>>>>, (* acirc; *)
      <<<<97, 99, 117, 116, 101>>, <<180>>>>, (* acute *)
      <<<<97, 99, 117, 116, 101, 59>>, <<180>>>>, (* acute; *)
      <<<<97, 99, 121, 59>>, <<1072>>>>, (* acy; *)
      <<<<97, 101, 108, 105, 103>>, <<230>>>>, (* aelig *)
      <<<<97, 101, 108, 105, 103, 59>>, <<230>>>>, (* aelig; *)
      <<<<97, 102, 59>>, <<8289>>>>, (* af; *)
      <<<<97, 102, 114, 59>>, <<120094>>>>, (* afr; *)
      <<<<97, 103, 114, 97, 118, 101>>, <<224>>>>, (* agrave *)
      <<<<97, 103, 114, 97, 118, 101, 59>>, <<224>>>>, (* agrave; *)
      <<<<97, 108, 101, 102, 115, 121, 109, 59>>, <<8501>>>>, (* alefsym; *)
      <<<<97, 108, 101, 112, 104, 59>>, <<8501>>>>, (* aleph; *)
      <<<<97, 108, 112, 104, 97, 59>>, <<945>>>>, (* alpha; *)
      <<<<97, 109, 97, 99, 114, 59>>, <<257>>>>, (* amacr; *)
      <<<<97, 109, 97, 108, 103, 59>>, <<10815>>>>, (* amalg; *)
      <<<<97, 109, 112>>, <<38>>>>, (* amp *)
      <<<<97, 109, 112, 59>>, <<38>>>>, (* amp; *)
      <<<<97, 110, 100, 59>>, <<8743>>>>, (* and; *)
      <<<<97, 110, 100, 97, 110, 100, 59>>, <<10837>>>>, (* andand; *)
      <<<<97, 110, 100, 100, 59>>, <<10844>>>>, (* andd; *)
      <<<<97, 110, 100, 115, 108, 111, 112, 101, 59>>, <<10840>>>>, (* andslope; *)
      <<<<97, 110, 100, 118, 59>>, <<10842>>>>, (* andv; *)
      <<<<97, 110, 103, 59>>, <<8736>>>>, (* ang; *)
      <<<<97, 110, 103, 101, 59>>, <<10660>>>>, (* ange; *)
      <<<<97, 110, 103, 108, 101, 59>>, <<8736>>>>, (* angle; *)
      <<<<97, 110, 103, 109, 115, 100, 59>>, <<8737>>>>, (* angmsd; *)
      <<<<97, 110, 103, 109, 115, 100, 97, 97, 59>>, <<10664>>>>, (* angmsdaa; *)
      <<<<97, 110, 103, 109, 115, 100, 97, 98, 59>>, <<10665>>>>, (* angmsdab; *)
      <<<<97, 110, 103, 109, 115, 100, 97, 99, 59>>, <<10666>>>>, (* angmsdac; *)
      <<<<97, 110, 103, 109, 115, 100, 97, 100, 59>>, <<10667>>>>, (* angmsdad; *)
      <<<<97, 110, 103, 109, 115, 100, 97, 101, 59>>, <<10668>>>>, (* angmsdae; *)
      <<<<97, 110, 103, 109, 115, 100, 97, 102, 59>>, <<10669>>>>, (* angmsdaf; *)
      <<<<97, 110, 103, 109, 115, 100, 97, 103, 59>>, <<10670>>>>, (* angmsdag; *)
      <<<<97, 110, 103, 109, 115, 100, 97, 104, 59>>, <<10671>>>>, (* angmsdah; *)
      <<<<97, 110, 103, 114, 116, 59>>, <<8735>>>>, (* angrt; *)
      <<<<97, 110, 103, 114, 116, 118, 98, 59>>, <<8894>>>>, (* angrtvb; *)
      <<<<97, 110, 103, 114, 116, 118, 98, 100, 59>>, <<10653>>>>, (* angrtvbd; *)
      <<<<97, 110, 103, 115, 112, 104, 59>>, <<8738>>>>, (* angsph; *)
      <<<<97, 110, 103, 115, 116, 59>>, <<197>>>>, (* angst; *)
      <<<<97, 110, 103, 122, 97, 114, 114, 59>>, <<9084>>>>, (* angzarr; *)
      <<<<97, 111, 103, 111, 110, 59>>, <<261>>>>, (* aogon; *)
      <<<<97, 111, 112, 102, 59>>, <<120146>>>>, (* aopf; *)
      <<<<97, 112, 59>>, <<8776>>>>, (* ap; *)
      <<<<97, 112, 69, 59>>, <<10864>>>>, (* apE; *)
      <<<<97, 112, 97, 99, 105, 114, 59>>, <<10863>>>>, (* apacir; *)
      <<<<97, 112, 101, 59>>, <<8778>>>>, (* ape; *)
      <<<<97, 112, 105, 100, 59>>, <<8779>>>>, (* apid; *)
      <<<<97, 112, 111, 115, 59>>, <<39>>>>, (* apos; *)
      <<<<97, 112, 112, 114, 111, 120, 59>>, <<8776>>>>, (* approx; *)
      <<<<97, 112, 112, 114, 111, 120, 101, 113, 59>>, <<8778>>>>, (* approxeq; *)
      <<<<97, 114, 105, 110, 103>>, <<229>>>>, (* aring *)
      <<<<97, 114, 105, 110, 103, 59>>, <<229>>>>, (* aring; *)
      <<<<97, 115, 99, 114, 59>>, <<119990>>>>, (* ascr; *)
      <<<<97, 115, 116, 59>>, <<42>>>>, (* ast; *)
      <<<<97, 115, 121, 109, 112, 59>>, <<8776>>>>, (* asymp; *)
      <<<<97, 115, 121, 109, 112, 101, 113, 59>>, <<8781>>>>, (* asympeq; *)
      <<<<97, 116, 105, 108, 100, 101>>, <<227>>>>, (* atilde *)
      <<<<97, 116, 105, 108, 100, 101, 59>>, <<227>>>>, (* atilde; *)
      <<<<97, 117, 109, 108>>, <<228>>>>, (* auml *)
      <<<<97, 117, 109, 108, 59>>, <<228>>>>, (* auml; *)
      <<<<97, 119, 99, 111, 110, 105, 110, 116, 59>>, <<8755>>>>, (* awconint; *)
      <<<<97, 119, 105, 110, 116, 59>>, <<10769>>>>, (* awint; *)
      <<<<98, 78, 111, 116, 59>>, <<10989>>>>, (* bNot; *)
      <<<<98, 97, 99, 107, 99, 111, 110, 103, 59>>, <<8780>>>>, (* backcong; *)
      <<<<98, 97, 99, 107, 101, 112, 115, 105, 108, 111, 110, 59>>, <<1014>>>>, (* backepsilon; *)
      <<<<98, 97, 99, 107, 112, 114, 105, 109, 101, 59>>, <<8245>>>>, (* backprime; *)
      <<<<98, 97, 99, 107, 115, 105, 109, 59>>, <<8765>>>>, (* backsim; *)
      <<<<98, 97, 99, 107, 115, 105, 109, 101, 113, 59>>, <<8909>>>>, (* backsimeq; *)
      <<<<98, 97, 114, 118, 101, 101, 59>>, <<8893>>>>, (* barvee; *)
      <<<<98, 97, 114, 119, 101, 100, 59>>, <<8965>>>>, (* barwed; *)
      <<<<98, 97, 114, 119, 101, 100, 103, 101, 59>>, <<8965>>>>, (* barwedge; *)
      <<<<98, 98, 114, 107, 59>>, <<9141>>>>, (* bbrk; *)
      <<<<98, 98, 114, 107, 116, 98, 114, 107, 59>>, <<9142>>>>, (* bbrktbrk; *)
      <<<<98, 99, 111, 110, 103, 59>>, <<8780>>>>, (* bcong; *)
      <<<<98, 99, 121, 59>>, <<1073>>>>, (* bcy; *)
      <<<<98, 100, 113, 117, 111, 59>>, <<8222>>>>, (* bdquo; *)
      <<<<98, 101, 99, 97, 117, 115, 59>>, <<8757>>>>, (* becaus; *)
      <<<<98, 101, 99, 97, 117, 115, 101, 59>>, <<8757>>>>, (* because; *)
      <<<<98, 101, 109, 112, 116, 121, 118, 59>>, <<10672>>>>, (* bemptyv; *)
      <<<<98, 101, 112, 115, 105, 59>>, <<1014>>>>, (* bepsi; *)
      <<<<98, 101, 114, 110, 111, 117, 59>>, <<8492>>>>, (* bernou; *)
      <<<<98, 101, 116, 97, 59>>, <<946>>>>, (* beta; *)
      <<<<98, 101, 116, 104, 59>>, <<8502>>>>, (* beth; *)
      <<<<98, 101, 116, 119, 101, 101, 110, 59>>, <<8812>>>>, (* between; *)
      <<<<98, 102, 114, 59>>, <<120095>>>>, (* bfr; *)
      <<<<98, 105, 103, 99, 97, 112, 59>>, <<8898>>>>, (* bigcap; *)
      <<<<98, 105, 103, 99, 105, 114, 99, 59>>, <<9711>>>>, (* bigcirc; *)
      <<<<98, 105, 103, 99, 117, 112, 59>>, <<8899>>>>, (* bigcup; *)
      <<<<98, 105, 103, 111, 100, 111, 116, 59>>, <<10752>>>>, (* bigodot; *)
      <<<<98, 105, 103, 111, 112, 108, 117, 115, 59>>, <<10753>>>>, (* bigoplus; *)
      <<<<98, 105, 103, 111, 116, 105, 109, 101, 115, 59>>, <<10754>>>>, (* bigotimes; *)
      <<<<98, 105, 103, 115, 113, 99, 117, 112, 59>>, <<10758>>>>, (* bigsqcup; *)
      <<<<98, 105, 103, 115, 116, 97, 114, 59>>, <<9733>>>>, (* bigstar; *)
      <<<<98, 105, 103, 116, 114, 105, 97, 110, 103, 108, 101, 100, 111, 119, 110, 59>>, <<9661>>>>, (* bigtriangledown; *)
      <<<<98, 105, 103, 116, 114, 105, 97, 110, 103, 108, 101, 117, 112, 59>>, <<9651>>>>, (* bigtriangleup; *)
      <<<<98, 105, 103, 117, 112, 108, 117, 115, 59>>, <<10756>>>>, (* biguplus; *)
      <<<<98, 105, 103, 118, 101, 101, 59>>, <<8897>>>>, (* bigvee; *)
      <<<<98, 105, 103, 119, 101, 100, 103, 101, 59>>, <<8896>>>>, (* bigwedge; *)
      <<<<98, 107, 97, 114, 111, 119, 59>>, <<10509>>>>, (* bkarow; *)
      <<<<98, 108, 97, 99, 107, 108, 111, 122, 101, 110, 103, 101, 59>>, <<10731>>>>, (* blacklozenge; *)
      <<<<98, 108, 97, 99, 107, 115, 113, 117, 97, 114, 101, 59>>, <<9642>>>>, (* blacksquare; *)
      <<<<98, 108, 97, 99, 107, 116, 114, 105, 97, 110, 103, 108, 101, 59>>, <<9652>>>>, (* blacktriangle; *)
      <<<<98, 108, 97, 99, 107, 116, 114, 105, 97, 110, 103, 108, 101, 100, 111, 119, 110, 59>>, <<9662>>>>, (* blacktriangledown; *)
      <<<<98, 108, 97, 99, 107, 116, 114, 105, 97, 110, 103, 108, 101, 108, 101, 102, 116, 59>>, <<9666>>>>, (* blacktriangleleft; *)
      <<<<98, 108, 97, 99, 107, 116, 114, 105, 97, 110, 103, 108, 101, 114, 105, 103, 104, 116, 59>>, <<9656>>>>, (* blacktriangleright; *)
      <<<<98, 108, 97, 110, 107, 59>>, <<9251>>>>, (* blank; *)
      <<<<98, 108, 107, 49, 50, 59>>, <<9618>>>>, (* blk12; *)
      <<<<98, 108, 107, 49, 52, 59>>, <<9617>>>>, (* blk14; *)
      <<<<98, 108, 107, 51, 52, 59>>, <<9619>>>>, (* blk34; *)
      <<<<98, 108, 111, 99, 107, 59>>, <<9608>>>>, (* block; *)
      <<<<98, 110, 101, 59>>, <<61, 8421>>>>, (* bne; *)
      <<<<98, 110, 101, 113, 117, 105, 118, 59>>, <<8801, 8421>>>>, (* bnequiv; *)
      <<<<98, 110, 111, 116, 59>>, <<8976>>>>, (* bnot; *)
      <<<<98, 111, 112, 102, 59>>, <<120147>>>>, (* bopf; *)
      <<<<98, 111, 116, 59>>, <<8869>>>>, (* bot; *)
      <<<<98, 111, 116, 116, 111, 109, 59>>, <<8869>>>>, (* bottom; *)
      <<<<98, 111, 119, 116, 105, 101, 59>>, <<8904>>>>, (* bowtie; *)
      <<<<98, 111, 120, 68, 76, 59>>, <<9559>>>>, (* boxDL; *)
      <<<<98, 111, 120, 68, 82, 59>>, <<9556>>>>, (* boxDR; *)
      <<<<98, 111, 120, 68, 108, 59>>, <<9558>>>>, (* boxDl; *)
      <<<<98, 111, 120, 68, 114, 59>>, <<9555>>>>, (* boxDr; *)
      <<<<98, 111, 120, 72, 59>>, <<9552>>>>, (* boxH; *)
      <<<<98, 111, 120, 72, 68, 59>>, <<9574>>>>, (* boxHD; *)
      <<<<98, 111, 120, 72, 85, 59>>, <<9577>>>>, (* boxHU; *)
      <<<<98, 111, 120, 72, 100, 59>>, <<9572>>>>, (* boxHd; *)
      <<<<98, 111, 120, 72, 117, 59>>, <<9575>>>>, (* boxHu; *)
      <<<<98, 111, 120, 85, 76, 59>>, <<9565>>>>, (* boxUL; *)
      <<<<98, 111, 120, 85, 82, 59>>, <<9562>>>>, (* boxUR; *)
      <<<<98, 111, 120, 85, 108, 59>>, <<9564>>>>, (* boxUl; *)
      <<<<98, 111, 120, 85, 114, 59>>, <<9561>>>>, (* boxUr; *)
      <<<<98, 111, 120, 86, 59>>, <<9553>>>>, (* boxV; *)
      <<<<98, 111, 120, 86, 72, 59>>, <<9580>>>>, (* boxVH; *)
      <<<<98, 111, 120, 86, 76, 59>>, <<9571>>>>, (* boxVL; *)
      <<<<98, 111, 120, 86, 82, 59>>, <<9568>>>>, (* boxVR; *)
      <<<<98, 111, 120, 86, 104, 59>>, <<9579>>>>, (* boxVh; *)
      <<<<98, 111, 120, 86, 108, 59>>, <<9570>>>>, (* boxVl; *)
      <<<<98, 111, 120, 86, 114, 59>>, <<9567>>>>, (* boxVr; *)
      <<<<98, 111, 120, 98, 111, 120, 59>>, <<10697>>>>, (* boxbox; *)
      <<<<98, 111, 120, 100, 76, 59>>, <<9557>>>>, (* boxdL; *)
      <<<<98, 111, 120, 100, 82, 59>>, <<9554>>>>, (* boxdR; *)
      <<<<98, 111, 120, 100, 108, 59>>, <<9488>>>>, (* boxdl; *)
      <<<<98, 111, 120, 100, 114, 59>>, <<9484>>>>, (* boxdr; *)
      <<<<98, 111, 120, 104, 59>>, <<9472>>>>, (* boxh; *)
      <<<<98, 111, 120, 104, 68, 59>>, <<9573>>>>, (* boxhD; *)
      <<<<98, 111, 120, 104, 85, 59>>, <<9576>>>>, (* boxhU; *)
      <<<<98, 111, 120, 104, 100, 59>>, <<9516>>>>, (* boxhd; *)
      <<<<98, 111, 120, 104, 117, 59>>, <<9524>>>>, (* boxhu; *)
      <<<<98, 111, 120, 109, 105, 110, 117, 115, 59>>, <<8863>>>>, (* boxminus; *)
      <<<<98, 111, 120, 112, 108, 117, 115, 59>>, <<8862>>>>, (* boxplus; *)
      <<<<98, 111, 120, 116, 105, 109, 101, 115, 59>>, <<8864>>>>, (* boxtimes; *)
      <<<<98, 111, 120, 117, 76, 59>>, <<9563>>>>, (* boxuL; *)
      <<<<98, 111, 120, 117, 82, 59>>, <<9560>>>>, (* boxuR; *)
      <<<<98, 111, 120, 117, 108, 59>>, <<9496>>>>, (* boxul; *)
      <<<<98, 111, 120, 117, 114, 59>>, <<9492>>>>, (* boxur; *)
      <<<<98, 111, 120, 118, 59>>, <<9474>>>>, (* boxv; *)
      <<<<98, 111, 120, 118, 72, 59>>, <<9578>>>>, (* boxvH; *)
      <<<<98, 111, 120, 118, 76, 59>>, <<9569>>>>, (* boxvL; *)
      <<<<98, 111, 120, 118, 82, 59>>, <<9566>>>>, (* boxvR; *)
      <<<<98, 111, 120, 118, 104, 59>>, <<9532>>>>, (* boxvh; *)
      <<<<98, 111, 120, 118, 108, 59>>, <<9508>>>>, (* boxvl; *)
      <<<<98, 111, 120, 118, 114, 59>>, <<9500>>>>, (* boxvr; *)
      <<<<98, 112, 114, 105, 109, 101, 59>>, <<8245>>>>, (* bprime; *)
      <<<<98, 114, 101, 118, 101, 59>>, <<728>>>>, (* breve; *)
      <<<<98, 114, 118, 98, 97, 114>>, <<166>>>>, (* brvbar *)
      <<<<98, 114, 118, 98, 97, 114, 59>>, <<166>>>>, (* brvbar; *)
      <<<<98, 115, 99, 114, 59>>, <<119991>>>>, (* bscr; *)
      <<<<98, 115, 101, 109, 105, 59>>, <<8271>>>>, (* bsemi; *)
      <<<<98, 115, 105, 109, 59>>, <<8765>>>>, (* bsim; *)
      <<<<98, 115, 105, 109, 101, 59>>, <<8909>>>>, (* bsime; *)
      <<<<98, 115, 111, 108, 59>>, <<92>>>>, (* bsol; *)
      <<<<98, 115, 111, 108, 98, 59>>, <<10693>>>>, (* bsolb; *)
      <<<<98, 115, 111, 108, 104, 115, 117, 98, 59>>, <<10184>>>>, (* bsolhsub; *)
      <<<<98, 117, 108, 108, 59>>, <<8226>>>>, (* bull; *)
      <<<<98, 117, 108, 108, 101, 116, 59>>, <<8226>>>>, (* bullet; *)
      <<<<98, 117, 109, 112, 59>>, <<8782>>>>, (* bump; *)
      <<<<98, 117, 109, 112, 69, 59>>, <<10926>>>>, (* bumpE; *)
      <<<<98, 117, 109, 112, 101, 59>>, <<8783>>>>, (* bumpe; *)
      <<<<98, 117, 109, 112, 101, 113, 59>>, <<8783>>>>, (* bumpeq; *)
      <<<<99, 97, 99, 117, 116, 101, 59>>, <<263>>>>, (* cacute; *)
      <<<<99, 97, 112, 59>>, <<8745>>>>, (* cap; *)
      <<<<99, 97, 112, 97, 110, 100, 59>>, <<10820>>>>, (* capand; *)
      <<<<99, 97, 112, 98, 114, 99, 117, 112, 59>>, <<10825>>>>, (* capbrcup; *)
      <<<<99, 97, 112, 99, 97, 112, 59>>, <<10827>>>>, (* capcap; *)
      <<<<99, 97, 112, 99, 117, 112, 59>>, <<10823>>>>, (* capcup; *)
      <<<<99, 97, 112, 100, 111, 116, 59>>, <<10816>>>>, (* capdot; *)
      <<<<99, 97, 112, 115, 59>>, <<8745, 65024>>>>, (* caps; *)
      <<<<99, 97, 114, 101, 116, 59>>, <<8257>>>>, (* caret; *)
      <<<<99, 97, 114, 111, 110, 59>>, <<711>>>>, (* caron; *)
      <<<<99, 99, 97, 112, 115, 59>>, <<10829>>>>, (* ccaps; *)
      <<<<99, 99, 97, 114, 111, 110, 59>>, <<269>>>>, (* ccaron; *)
      <<<<99, 99, 101, 100, 105, 108>>, <<231>>>>, (* ccedil *)
      <<<<99, 99, 101, 100, 105, 108, 59>>, <<231>>>>, (* ccedil; *)
      <<<<99, 99, 105, 114, 99, 59>>, <<265>>>>, (* ccirc; *)
      <<<<99, 99, 117, 112, 115, 59>>, <<10828>>>>, (* ccups; *)
      <<<<99, 99, 117, 112, 115, 115, 109, 59>>, <<10832>>>>, (* ccupssm; *)
      <<<<99, 100, 111, 116, 59>>, <<267>>>>, (* cdot; *)
      <<<<99, 101, 100, 105, 108>>, <<184>>>>, (* cedil *)
      <<<<99, 101, 100, 105, 108, 59>>, <<184>>>>, (* cedil; *)
      <<<<99, 101, 109, 112, 116, 121, 118, 59>>, <<10674>>>>, (* cemptyv; *)
      <<<<99, 101, 110, 116>>, <<162>>>>, (* cent *)
      <<<<99, 101, 110, 116, 59>>, <<162>>>>, (* cent; *)
      <<<<99, 101, 110, 116, 101, 114, 100, 111, 116, 59>>, <<183>>>>, (* centerdot; *)
      <<<<99, 102, 114, 59>>, <<120096>>>>, (* cfr; *)
      <<<<99, 104, 99, 121, 59>>, <<1095>>>>, (* chcy; *)
      <<<<99, 104, 101, 99, 107, 59>>, <<10003>>>>, (* check; *)
      <<<<99, 104, 101, 99, 107, 109, 97, 114, 107, 59>>, <<10003>>>>, (* checkmark; *)
      <<<<99, 104, 105, 59>>, <<967>>>>, (* chi; *)
      <<<<99, 105, 114, 59>>, <<9675>>>>, (* cir; *)
      <<<<99, 105, 114, 69, 59>>, <<10691>>>>, (* cirE; *)
      <<<<99, 105, 114, 99, 59>>, <<710>>>>, (* circ; *)
      <<<<99, 105, 114, 99, 101, 113, 59>>, <<8791>>>>, (* circeq; *)
      <<<<99, 105, 114, 99, 108, 101, 97, 114, 114, 111, 119, 108, 101, 102, 116, 59>>, <<8634>>>>, (* circlearrowleft; *)
      <<<<99, 105, 114, 99, 108, 101, 97, 114, 114, 111, 119, 114, 105, 103, 104, 116, 59>>, <<8635>>>>, (* circlearrowright; *)
      <<<<99, 105, 114, 99, 108, 101, 100, 82, 59>>, <<174>>>>, (* circledR; *)
      <<<<99, 105, 114, 99, 108, 101, 100, 83, 59>>, <<9416>>>>, (* circledS; *)
      <<<<99, 105, 114, 99, 108, 101, 100, 97, 115, 116, 59>>, <<8859>>>>, (* circledast; *)
      <<<<99, 105, 114, 99, 108, 101, 100, 99, 105, 114, 99, 59>>, <<8858>>>>, (* circledcirc; *)
      <<<<99, 105, 114, 99, 108, 101, 100, 100, 97, 115, 104, 59>>, <<8861>>>>, (* circleddash; *)
      <<<<99, 105, 114, 101, 59>>, <<8791>>>>, (* cire; *)
      <<<<99, 105, 114, 102, 110, 105, 110, 116, 59>>, <<10768>>>>, (* cirfnint; *)
      <<<<99, 105, 114, 109, 105, 100, 59>>, <<10991>>>>, (* cirmid; *)
      <<<<99, 105, 114, 115, 99, 105, 114, 59>>, <<10690>>>>, (* cirscir; *)
      <<<<99, 108, 117, 98, 115, 59>>, <<9827>>>>, (* clubs; *)
      <<<<99, 108, 117, 98, 115, 117, 105, 116, 59>>, <<9827>>>>, (* clubsuit; *)
      <<<<99, 111, 108, 111, 110, 59>>, <<58>>>>, (* colon; *)
      <<<<99, 111, 108, 111, 110, 101, 59>>, <<8788>>>>, (* colone; *)
      <<<<99, 111, 108, 111, 110, 101, 113, 59>>, <<8788>>>>, (* coloneq; *)
      <<<<99, 111, 109, 109, 97, 59>>, <<44>>>>, (* comma; *)
      <<<<99, 111, 109, 109, 97, 116, 59>>, <<64>>>>, (* commat; *)
      <<<<99, 111, 109, 112, 59>>, <<8705>>>>, (* comp; *)
      <<<<99, 111, 109, 112, 102, 110, 59>>, <<8728>>>>, (* compfn; *)
      <<<<99, 111, 109, 112, 108, 101, 109, 101, 110, 116, 59>>, <<8705>>>>, (* complement; *)
      <<<<99, 111, 109, 112, 108, 101, 120, 101, 115, 59>>, <<8450>>>>, (* complexes; *)
      <<<<99, 111, 110, 103, 59>>, <<8773>>>>, (* cong; *)
      <<<<99, 111, 110, 103, 100, 111, 116, 59>>, <<10861>>>>, (* congdot; *)
      <<<<99, 111, 110, 105, 110, 116, 59>>, <<8750>>>>, (* conint; *)
      <<<<99, 111, 112, 102, 59>>, <<120148>>>>, (* copf; *)
      <<<<99, 111, 112, 114, 111, 100, 59>>, <<8720>>>>, (* coprod; *)
      <<<<99, 111, 112, 121>>, <<169>>>>, (* copy *)
      <<<<99, 111, 112, 121, 59>>, <<169>>>>, (* copy; *)
      <<<<99, 111, 112, 121, 115, 114, 59>>, <<8471>>>>, (* copysr; *)
      <<<<99, 114, 97, 114, 114, 59>>, <<8629>>>>, (* crarr; *)
      <<<<99, 114, 111, 115, 115, 59>>, <<10007>>>>, (* cross; *)
      <<<<99, 115, 99, 114, 59>>, <<119992>>>>, (* cscr; *)
      <<<<99, 115, 117, 98, 59>>, <<10959>>>>, (* csub; *)
      <<<<99, 115, 117, 98, 101, 59>>, <<10961>>>>, (* csube; *)
      <<<<99, 115, 117, 112, 59>>, <<10960>>>>, (* csup; *)
      <<<<99, 115, 117, 112, 101, 59>>, <<10962>>>>, (* csupe; *)
      <<<<99, 116, 100, 111, 116, 59>>, <<8943>>>>, (* ctdot; *)
      <<<<99, 117, 100, 97, 114, 114, 108, 59>>, <<10552>>>>, (* cudarrl; *)
      <<<<99, 117, 100, 97, 114, 114, 114, 59>>, <<10549>>>>, (* cudarrr; *)
      <<<<99, 117, 101, 112, 114, 59>>, <<8926>>>>, (* cuepr; *)
      <<<<99, 117, 101, 115, 99, 59>>, <<8927>>>>, (* cuesc; *)
      <<<<99, 117, 108, 97, 114, 114, 59>>, <<8630>>>>, (* cularr; *)
      <<<<99, 117, 108, 97, 114, 114, 112, 59>>, <<10557>>>>, (* cularrp; *)
      <<<<99, 117, 112, 59>>, <<8746>>>>, (* cup; *)
      <<<<99, 117, 112, 98, 114, 99, 97, 112, 59>>, <<10824>>>>, (* cupbrcap; *)
      <<<<99, 117, 112, 99, 97, 112, 59>>, <<10822>>>>, (* cupcap; *)
      <<<<99, 117, 112, 99, 117, 112, 59>>, <<10826>>>>, (* cupcup; *)
      <<<<99, 117, 112, 100, 111, 116, 59>>, <<8845>>>>, (* cupdot; *)
      <<<<99, 117, 112, 111, 114, 59>>, <<10821>>>>, (* cupor; *)
      <<<<99, 117, 112, 115, 59>>, <<8746, 65024>>>>, (* cups; *)
      <<<<99, 117, 114, 97, 114, 114, 59>>, <<8631>>>>, (* curarr; *)
      <<<<99, 117, 114, 97, 114, 114, 109, 59>>, <<10556>>>>, (* curarrm; *)
      <<<<99, 117, 114, 108, 121, 101, 113, 112, 114, 101, 99, 59>>, <<8926>>>>, (* curlyeqprec; *)
      <<<<99, 117, 114, 108, 121, 101, 113, 115, 117, 99, 99, 59>>, <<8927>>>>, (* curlyeqsucc; *)
      <<<<99, 117, 114, 108, 121, 118, 101, 101, 59>>, <<8910>>>>, (* curlyvee; *)
      <<<<99, 117, 114, 108, 121, 119, 101, 100, 103, 101, 59>>, <<8911>>>>, (* curlywedge; *)
      <<<<99, 117, 114, 114, 101, 110>>, <<164>>>>, (* curren *)
      <<<<99, 117, 114, 114, 101, 110, 59>>, <<164>>>>, (* curren; *)
      <<<<99, 117, 114, 118, 101, 97, 114, 114, 111, 119, 108, 101, 102, 116, 59>>, <<8630>>>>, (* curvearrowleft; *)
      <<<<99, 117, 114, 118, 101, 97, 114, 114, 111, 119, 114, 105, 103, 104, 116, 59>>, <<8631>>>>, (* curvearrowright; *)
      <<<<99, 117, 118, 101, 101, 59>>, <<8910>>>>, (* cuvee; *)
      <<<<99, 117, 119, 101, 100, 59>>, <<8911>>>>, (* cuwed; *)
      <<<<99, 119, 99, 111, 110, 105, 110, 116, 59>>, <<8754>>>>, (* cwconint; *)
      <<<<99, 119, 105, 110, 116, 59>>, <<8753>>>>, (* cwint; *)
      <<<<99, 121, 108, 99, 116, 121, 59>>, <<9005>>>>, (* cylcty; *)
      <<<<100, 65, 114, 114, 59>>, <<8659>>>>, (* dArr; *)
      <<<<100, 72, 97, 114, 59>>, <<10597>>>>, (* dHar; *)
      <<<<100, 97, 103, 103, 101, 114, 59>>, <<8224>>>>, (* dagger; *)
      <<<<100, 97, 108, 101, 116, 104, 59>>, <<8504>>>>, (* daleth; *)
      <<<<100, 97, 114, 114, 59>>, <<8595>>>>, (* darr; *)
      <<<<100, 97, 115, 104, 59>>, <<8208>>>>, (* dash; *)
      <<<<100, 97, 115, 104, 118, 59>>, <<8867>>>>, (* dashv; *)
      <<<<100, 98, 107, 97, 114, 111, 119, 59>>, <<10511>>>>, (* dbkarow; *)
      <<<<100, 98, 108, 97, 99, 59>>, <<733>>>>, (* dblac; *)
      <<<<100, 99, 97, 114, 111, 110, 59>>, <<271>>>>, (* dcaron; *)
      <<<<100, 99, 121, 59>>, <<1076>>>>, (* dcy; *)
      <<<<100, 100, 59>>, <<8518>>>>, (* dd; *)
      <<<<100, 100, 97, 103, 103, 101, 114, 59>>, <<8225>>>>, (* ddagger; *)
      <<<<100, 100, 97, 114, 114, 59>>, <<8650>>>>, (* ddarr; *)
      <<<<100, 100, 111, 116, 115, 101, 113, 59>>, <<10871>>>>, (* ddotseq; *)
      <<<<100, 101, 103>>, <<176>>>>, (* deg *)
      <<<<100, 101, 103, 59>>, <<176>>>>, (* deg; *)
      <<<<100, 101, 108, 116, 97, 59>>, <<948>>>>, (* delta; *)
      <<<<100, 101, 109, 112, 116, 121, 118, 59>>, <<10673>>>>, (* demptyv; *)
      <<<<100, 102, 105, 115, 104, 116, 59>>, <<10623>>>>, (* dfisht; *)
      <<<<100, 102, 114, 59>>, <<120097>>>>, (* dfr; *)
      <<<<100, 104, 97, 114, 108, 59>>, <<8643>>>>, (* dharl; *)
      <<<<100, 104, 97, 114, 114, 59>>, <<8642>>>>, (* dharr; *)
      <<<<100, 105, 97, 109, 59>>, <<8900>>>>, (* diam; *)
      <<<<100, 105, 97, 109, 111, 110, 100, 59>>, <<8900>>>>, (* diamond; *)
      <<<<100, 105, 97, 109, 111, 110, 100, 115, 117, 105, 116, 59>>, <<9830>>>>, (* diamondsuit; *)
      <<<<100, 105, 97, 109, 115, 59>>, <<9830>>>>, (* diams; *)
      <<<<100, 105, 101, 59>>, <<168>>>>, (* die; *)
      <<<<100, 105, 103, 97, 109, 109, 97, 59>>, <<989>>>>, (* digamma; *)
      <<<<100, 105, 115, 105, 110, 59>>, <<8946>>>>, (* disin; *)
      <<<<100, 105, 118, 59>>, <<247>>>>, (* div; *)
      <<<<100, 105, 118, 105, 100, 101>>, <<247>>>>, (* divide *)
      <<<<100, 105, 118, 105, 100, 101, 59>>, <<247>>>>, (* divide; *)
      <<<<100, 105, 118, 105, 100, 101, 111, 110, 116, 105, 109, 101, 115, 59>>, <<8903>>>>, (* divideontimes; *)
      <<<<100, 105, 118, 111, 110, 120, 59>>, <<8903>>>>, (* divonx; *)
      <<<<100, 106, 99, 121, 59>>, <<1106>>>>, (* djcy; *)
      <<<<100, 108, 99, 111, 114, 110, 59>>, <<8990>>>>, (* dlcorn; *)
      <<<<100, 108, 99, 114, 111, 112, 59>>, <<8973>>>>, (* dlcrop; *)
      <<<<100, 111, 108, 108, 97, 114, 59>>, <<36>>>>, (* dollar; *)
      <<<<100, 111, 112, 102, 59>>, <<120149>>>>, (* dopf; *)
      <<<<100, 111, 116, 59>>, <<729>>>>, (* dot; *)
      <<<<100, 111, 116, 101, 113, 59>>, <<8784>>>>, (* doteq; *)
      <<<<100, 111, 116, 101, 113, 100, 111, 116, 59>>, <<8785>>>>, (* doteqdot; *)
      <<<<100, 111, 116, 109, 105, 110, 117, 115, 59>>, <<8760>>>>, (* dotminus; *)
      <<<<100, 111, 116, 112, 108, 117, 115, 59>>, <<8724>>>>, (* dotplus; *)
      <<<<100, 111, 116, 115, 113, 117, 97, 114, 101, 59>>, <<8865>>>>, (* dotsquare; *)
      <<<<100, 111, 117, 98, 108, 101, 98, 97, 114, 119, 101, 100, 103, 101, 59>>, <<8966>>>>, (* doublebarwedge; *)
      <<<<100, 111, 119, 110, 97, 114, 114, 111, 119, 59>>, <<8595>>>>, (* downarrow; *)
      <<<<100, 111, 119, 110, 100, 111, 119, 110, 97, 114, 114, 111, 119, 115, 59>>, <<8650>>>>, (* downdownarrows; *)
      <<<<100, 111, 119, 110, 104, 97, 114, 112, 111, 111, 110, 108, 101, 102, 116, 59>>, <<8643>>>>, (* downharpoonleft; *)
      <<<<100, 111, 119, 110, 104, 97, 114, 112, 111, 111, 110, 114, 105, 103, 104, 116, 59>>, <<8642>>>>, (* downharpoonright; *)
      <<<<100, 114, 98, 107, 97, 114, 111, 119, 59>>, <<10512>>>>, (* drbkarow; *)
      <<<<100, 114, 99, 111, 114, 110, 59>>, <<8991>>>>, (* drcorn; *)
      <<<<100, 114, 99, 114, 111, 112, 59>>, <<8972>>>>, (* drcrop; *)
      <<<<100, 115, 99, 114, 59>>, <<119993>>>>, (* dscr; *)
      <<<<100, 115, 99, 121, 59>>, <<1109>>>>, (* dscy; *)
      <<<<100, 115, 111, 108, 59>>, <<10742>>>>, (* dsol; *)
      <<<<100, 115, 116, 114, 111, 107, 59>>, <<273>>>>, (* dstrok; *)
      <<<<100, 116, 100, 111, 116, 59>>, <<8945>>>>, (* dtdot; *)
      <<<<100, 116, 114, 105, 59>>, <<9663>>>>, (* dtri; *)
      <<<<100, 116, 114, 105, 102, 59>>, <<9662>>>>, (* dtrif; *)
      <<<<100, 117, 97, 114, 114, 59>>, <<8693>>>>, (* duarr; *)
      <<<<100, 117, 104, 97, 114, 59>>, <<10607>>>>, (* duhar; *)
      <<<<100, 119, 97, 110, 103, 108, 101, 59>>, <<10662>>>>, (* dwangle; *)
      <<<<100, 122, 99, 121, 59>>, <<1119>>>>, (* dzcy; *)
      <<<<100, 122, 105, 103, 114, 97, 114, 114, 59>>, <<10239>>>>, (* dzigrarr; *)
      <<<<101, 68, 68, 111, 116, 59>>, <<10871>>>>, (* eDDot; *)
      <<<<101, 68, 111, 116, 59>>, <<8785>>>>, (* eDot; *)
      <<<<101, 97, 99, 117, 116, 101>>, <<233>>>>, (* eacute *)
      <<<<101, 97, 99, 117, 116, 101, 59>>, <<233>>>>, (* eacute; *)
      <<<<101, 97, 115, 116, 101, 114, 59>>, <<10862>>>>, (* easter; *)
      <<<<101, 99, 97, 114, 111, 110, 59>>, <<283>>>>, (* ecaron; *)
      <<<<101, 99, 105, 114, 59>>, <<8790>>>>, (* ecir; *)
      <<<<101, 99, 105, 114, 99>>, <<234>>>>, (* ecirc *)
      <<<<101, 99, 105, 114, 99, 59>>, <<234>>>>, (* ecirc; *)
      <<<<101, 99, 111, 108, 111, 110, 59>>, <<8789>>>>, (* ecolon; *)
      <<<<101, 99, 121, 59>>, <<1101>>>>, (* ecy; *)
      <<<<101, 100, 111, 116, 59>>, <<279>>>>, (* edot; *)
      <<<<101, 101, 59>>, <<8519>>>>, (* ee; *)
      <<<<101, 102, 68, 111, 116, 59>>, <<8786>>>>, (* efDot; *)
      <<<<101, 102, 114, 59>>, <<120098>>>>, (* efr; *)
      <<<<101, 103, 59>>, <<10906>>>>, (* eg; *)
      <<<<101, 103, 114, 97, 118, 101>>, <<232>>>>, (* egrave *)
      <<<<101, 103, 114, 97, 118, 101, 59>>, <<232>>>>, (* egrave; *)
      <<<<101, 103, 115, 59>>, <<10902>>>>, (* egs; *)
      <<<<101, 103, 115, 100, 111, 116, 59>>, <<10904>>>>, (* egsdot; *)
      <<<<101, 108, 59>>, <<10905>>>>, (* el; *)
      <<<<101, 108, 105, 110, 116, 101, 114, 115, 59>>, <<9191>>>>, (* elinters; *)
      <<<<101, 108, 108, 59>>, <<8467>>>>, (* ell; *)
      <<<<101, 108, 115, 59>>, <<10901>>>>, (* els; *)
      <<<<101, 108, 115, 100, 111, 116, 59>>, <<10903>>>>, (* elsdot; *)
      <<<<101, 109, 97, 99, 114, 59>>, <<275>>>>, (* emacr; *)
      <<<<101, 109, 112, 116, 121, 59>>, <<8709>>>>, (* empty; *)
      <<<<101, 109, 112, 116, 121, 115, 101, 116, 59>>, <<8709>>>>, (* emptyset; *)
      <<<<101, 109, 112, 116, 121, 118, 59>>, <<8709>>>>, (* emptyv; *)
      <<<<101, 109, 115, 112, 49, 51, 59>>, <<8196>>>>, (* emsp13; *)
      <<<<101, 109, 115, 112, 49, 52, 59>>, <<8197>>>>, (* emsp14; *)
      <<<<101, 109, 115, 112, 59>>, <<8195>>>>, (* emsp; *)
      <<<<101, 110, 103, 59>>, <<331>>>>, (* eng; *)
      <<<<101, 110, 115, 112, 59>>, <<8194>>>>, (* ensp; *)
      <<<<101, 111, 103, 111, 110, 59>>, <<281>>>>, (* eogon; *)
      <<<<101, 111, 112, 102, 59>>, <<120150>>>>, (* eopf; *)
      <<<<101, 112, 97, 114, 59>>, <<8917>>>>, (* epar; *)
      <<<<101, 112, 97, 114, 115, 108, 59>>, <<10723>>>>, (* eparsl; *)
      <<<<101, 112, 108, 117, 115, 59>>, <<10865>>>>, (* eplus; *)
      <<<<101, 112, 115, 105, 59>>, <<949>>>>, (* epsi; *)
      <<<<101, 112, 115, 105, 108, 111, 110, 59>>, <<949>>>>, (* epsilon; *)
      <<<<101, 112, 115, 105, 118, 59>>, <<1013>>>>, (* epsiv; *)
      <<<<101, 113, 99, 105, 114, 99, 59>>, <<8790>>>>, (* eqcirc; *)
      <<<<101, 113, 99, 111, 108, 111, 110, 59>>, <<8789>>>>, (* eqcolon; *)
      <<<<101, 113, 115, 105, 109, 59>>, <<8770>>>>, (* eqsim; *)
      <<<<101, 113, 115, 108, 97, 110, 116, 103, 116, 114, 59>>, <<10902>>>>, (* eqslantgtr; *)
      <<<<101, 113, 115, 108, 97, 110, 116, 108, 101, 115, 115, 59>>, <<10901>>>>, (* eqslantless; *)
      <<<<101, 113, 117, 97, 108, 115, 59>>, <<61>>>>, (* equals; *)
      <<<<101, 113, 117, 101, 115, 116, 59>>, <<8799>>>>, (* equest; *)
      <<<<101, 113, 117, 105, 118, 59>>, <<8801>>>>, (* equiv; *)
      <<<<101, 113, 117, 105, 118, 68, 68, 59>>, <<10872>>>>, (* equivDD; *)
      <<<<101, 113, 118, 112, 97, 114, 115, 108, 59>>, <<10725>>>>, (* eqvparsl; *)
      <<<<101, 114, 68, 111, 116, 59>>, <<8787>>>>, (* erDot; *)
      <<<<101, 114, 97, 114, 114, 59>>, <<10609>>>>, (* erarr; *)
      <<<<101, 115, 99, 114, 59>>, <<8495>>>>, (* escr; *)
      <<<<101, 115, 100, 111, 116, 59>>, <<8784>>>>, (* esdot; *)
      <<<<101, 115, 105, 109, 59>>, <<8770>>>>, (* esim; *)
      <<<<101, 116, 97, 59>>, <<951>>>>, (* eta; *)
      <<<<101, 116, 104>>, <<240>>>>, (* eth *)
      <<<<101, 116, 104, 59>>, <<240>>>>, (* eth; *)
      <<<<101, 117, 109, 108>>, <<235>>>>, (* euml *)
      <<<<101, 117, 109, 108, 59>>, <<235>>>>, (* euml; *)
      <<<<101, 117, 114, 111, 59>>, <<8364>>>>, (* euro; *)
      <<<<101, 120, 99, 108, 59>>, <<33>>>>, (* excl; *)
      <<<<101, 120, 105, 115, 116, 59>>, <<8707>>>>, (* exist; *)
      <<<<101, 120, 112, 101, 99, 116, 97, 116, 105, 111, 110, 59>>, <<8496>>>>, (* expectation; *)
      <<<<101, 120, 112, 111, 110, 101, 110, 116, 105, 97, 108, 101, 59>>, <<8519>>>>, (* exponentiale; *)
      <<<<102, 97, 108, 108, 105, 110, 103, 100, 111, 116, 115, 101, 113, 59>>, <<8786>>>>, (* fallingdotseq; *)
      <<<<102, 99, 121, 59>>, <<1092>>>>, (* fcy; *)
      <<<<102, 101, 109, 97, 108, 101, 59>>, <<9792>>>>, (* female; *)
      <<<<102, 102, 105, 108, 105, 103, 59>>, <<64259>>>>, (* ffilig; *)
      <<<<102, 102, 108, 105, 103, 59>>, <<64256>>>>, (* fflig; *)
      <<<<102, 102, 108, 108, 105, 103, 59>>, <<64260>>>>, (* ffllig; *)
      <<<<102, 102, 114, 59>>, <<120099>>>>, (* ffr; *)
      <<<<102, 105, 108, 105, 103, 59>>, <<64257>>>>, (* filig; *)
      <<<<102, 106, 108, 105, 103, 59>>, <<102, 106>>>>, (* fjlig; *)
      <<<<102, 108, 97, 116, 59>>, <<9837>>>>, (* flat; *)
      <<<<102, 108, 108, 105, 103, 59>>, <<64258>>>>, (* fllig; *)
      <<<<102, 108, 116, 110, 115, 59>>, <<9649>>>>, (* fltns; *)
      <<<<102, 110, 111, 102, 59>>, <<402>>>>, (* fnof; *)
      <<<<102, 111, 112, 102, 59>>, <<120151>>>>, (* fopf; *)
      <<<<102, 111, 114, 97, 108, 108, 59>>, <<8704>>>>, (* forall; *)
      <<<<102, 111, 114, 107, 59>>, <<8916>>>>, (* fork; *)
      <<<<102, 111, 114, 107, 118, 59>>, <<10969>>>>, (* forkv; *)
      <<<<102, 112, 97, 114, 116, 105, 110, 116, 59>>, <<10765>>>>, (* fpartint; *)
      <<<<102, 114, 97, 99, 49, 50>>, <<189>>>>, (* frac12 *)
      <<<<102, 114, 97, 99, 49, 50, 59>>, <<189>>>>, (* frac12; *)
      <<<<102, 114, 97, 99, 49, 51, 59>>, <<8531>>>>, (* frac13; *)
      <<<<102, 114, 97, 99, 49, 52>>, <<188>>>>, (* frac14 *)
      <<<<102, 114, 97, 99, 49, 52, 59>>, <<188>>>>, (* frac14; *)
      <<<<102, 114, 97, 99, 49, 53, 59>>, <<8533>>>>, (* frac15; *)
      <<<<102, 114, 97, 99, 49, 54, 59>>, <<8537>>>>, (* frac16; *)
      <<<<102, 114, 97, 99, 49, 56, 59>>, <<8539>>>>, (* frac18; *)
      <<<<102, 114, 97, 99, 50, 51, 59>>, <<8532>>>>, (* frac23; *)
      <<<<102, 114, 97, 99, 50, 53, 59>>, <<8534>>>>, (* frac25; *)
      <<<<102, 114, 97, 99, 51, 52>>, <<190>>>>, (* frac34 *)
      <<<<102, 114, 97, 99, 51, 52, 59>>, <<190>>>>, (* frac34; *)
      <<<<102, 114, 97, 99, 51, 53, 59>>, <<8535>>>>, (* frac35; *)
      <<<<102, 114, 97, 99, 51, 56, 59>>, <<8540>>>>, (* frac38; *)
      <<<<102, 114, 97, 99, 52, 53, 59>>, <<8536>>>>, (* frac45; *)
      <<<<102, 114, 97, 99, 53, 54, 59>>, <<8538>>>>, (* frac56; *)
      <<<<102, 114, 97, 99, 53, 56, 59>>, <<8541>>>>, (* frac58; *)
      <<<<102, 114, 97, 99, 55, 56, 59>>, <<8542>>>>, (* frac78; *)
      <<<<102, 114, 97, 115, 108, 59>>, <<8260>>>>, (* frasl; *)
      <<<<102, 114, 111, 119, 110, 59>>, <<8994>>>>, (* frown; *)
      <<<<102, 115, 99, 114, 59>>, <<119995>>>>, (* fscr; *)
      <<<<103, 69, 59>>, <<8807>>>>, (* gE; *)
      <<<<103, 69, 108, 59>>, <<10892>>>>, (* gEl; *)
      <<<<103, 97, 99, 117, 116, 101, 59>>, <<501>>>>, (* gacute; *)
      <<<<103, 97, 109, 109, 97, 59>>, <<947>>>>, (* gamma; *)
      <<<<103, 97, 109, 109, 97, 100, 59>>, <<989>>>>, (* gammad; *)
      <<<<103, 97, 112, 59>>, <<10886>>>>, (* gap; *)
      <<<<103, 98, 114, 101, 118, 101, 59>>, <<287>>>>, (* gbreve; *)
      <<<<103, 99, 105, 114, 99, 59>>, <<285>>>>, (* gcirc; *)
      <<<<103, 99, 121, 59>>, <<1075>>>>, (* gcy; *)
      <<<<103, 100, 111, 116, 59>>, <<289>>>>, (* gdot; *)
      <<<<103, 101, 59>>, <<8805>>>>, (* ge; *)
      <<<<103, 101, 108, 59>>, <<8923>>>>, (* gel; *)
      <<<<103, 101, 113, 59>>, <<8805>>>>, (* geq; *)
      <<<<103, 101, 113, 113, 59>>, <<8807>>>>, (* geqq; *)
      <<<<103, 101, 113, 115, 108, 97, 110, 116, 59>>, <<10878>>>>, (* geqslant; *)
      <<<<103, 101, 115, 59>>, <<10878>>>>, (* ges; *)
      <<<<103, 101, 115, 99, 99, 59>>, <<10921>>>>, (* gescc; *)
      <<<<103, 101, 115, 100, 111, 116, 59>>, <<10880>>>>, (* gesdot; *)
      <<<<103, 101, 115, 100, 111, 116, 111, 59>>, <<10882>>>>, (* gesdoto; *)
      <<<<103, 101, 115, 100, 111, 116, 111, 108, 59>>, <<10884>>>>, (* gesdotol; *)
      <<<<103, 101, 115, 108, 59>>, <<8923, 65024>>>>, (* gesl; *)
      <<<<103, 101, 115, 108, 101, 115, 59>>, <<10900>>>>, (* gesles; *)
      <<<<103, 102, 114, 59>>, <<120100>>>>, (* gfr; *)
      <<<<103, 103, 59>>, <<8811>>>>, (* gg; *)
      <<<<103, 103, 103, 59>>, <<8921>>>>, (* ggg; *)
      <<<<103, 105, 109, 101, 108, 59>>, <<8503>>>>, (* gimel; *)
      <<<<103, 106, 99, 121, 59>>, <<1107>>>>, (* gjcy; *)
      <<<<103, 108, 59>>, <<8823>>>>, (* gl; *)
      <<<<103, 108, 69, 59>>, <<10898>>>>, (* glE; *)
      <<<<103, 108, 97, 59>>, <<10917>>>>, (* gla; *)
      <<<<103, 108, 106, 59>>, <<10916>>>>, (* glj; *)
      <<<<103, 110, 69, 59>>, <<8809>>>>, (* gnE; *)
      <<<<103, 110, 97, 112, 59>>, <<10890>>>>, (* gnap; *)
      <<<<103, 110, 97, 112, 112, 114, 111, 120, 59>>, <<10890>>>>, (* gnapprox; *)
      <<<<103, 110, 101, 59>>, <<10888>>>>, (* gne; *)
      <<<<103, 110, 101, 113, 59>>, <<10888>>>>, (* gneq; *)
      <<<<103, 110, 101, 113, 113, 59>>, <<8809>>>>, (* gneqq; *)
      <<<<103, 110, 115, 105, 109, 59>>, <<8935>>>>, (* gnsim; *)
      <<<<103, 111, 112, 102, 59>>, <<120152>>>>, (* gopf; *)
      <<<<103, 114, 97, 118, 101, 59>>, <<96>>>>, (* grave; *)
      <<<<103, 115, 99, 114, 59>>, <<8458>>>>, (* gscr; *)
      <<<<103, 115, 105, 109, 59>>, <<8819>>>>, (* gsim; *)
      <<<<103, 115, 105, 109, 101, 59>>, <<10894>>>>, (* gsime; *)
      <<<<103, 115, 105, 109, 108, 59>>, <<10896>>>>, (* gsiml; *)
      <<<<103, 116>>, <<62>>>>, (* gt *)
      <<<<103, 116, 59>>, <<62>>>>, (* gt; *)
      <<<<103, 116, 99, 99, 59>>, <<10919>>>>, (* gtcc; *)
      <<<<103, 116, 99, 105, 114, 59>>, <<10874>>>>, (* gtcir; *)
      <<<<103, 116, 100, 111, 116, 59>>, <<8919>>>>, (* gtdot; *)
      <<<<103, 116, 108, 80, 97, 114, 59>>, <<10645>>>>, (* gtlPar; *)
      <<<<103, 116, 113, 117, 101, 115, 116, 59>>, <<10876>>>>, (* gtquest; *)
      <<<<103, 116, 114, 97, 112, 112, 114, 111, 120, 59>>, <<10886>>>>, (* gtrapprox; *)
      <<<<103, 116, 114, 97, 114, 114, 59>>, <<10616>>>>, (* gtrarr; *)
      <<<<103, 116, 114, 100, 111, 116, 59>>, <<8919>>>>, (* gtrdot; *)
      <<<<103, 116, 114, 101, 113, 108, 101, 115, 115, 59>>, <<8923>>>>, (* gtreqless; *)
      <<<<103, 116, 114, 101, 113, 113, 108, 101, 115, 115, 59>>, <<10892>>>>, (* gtreqqless; *)
      <<<<103, 116, 114, 108, 101, 115, 115, 59>>, <<8823>>>>, (* gtrless; *)
      <<<<103, 116, 114, 115, 105, 109, 59>>, <<8819>>>>, (* gtrsim; *)
      <<<<103, 118, 101, 114, 116, 110, 101, 113, 113, 59>>, <<8809, 65024>>>>, (* gvertneqq; *)
      <<<<103, 118, 110, 69, 59>>, <<8809, 65024>>>>, (* gvnE; *)
      <<<<104, 65, 114, 114, 59>>, <<8660>>>>, (* hArr; *)
      <<<<104, 97, 105, 114, 115, 112, 59>>, <<8202>>>>, (* hairsp; *)
      <<<<104, 97, 108, 102, 59>>, <<189>>>>, (* half; *)
      <<<<104, 97, 109, 105, 108, 116, 59>>, <<8459>>>>, (* hamilt; *)
      <<<<104, 97, 114, 100, 99, 121, 59>>, <<1098>>>>, (* hardcy; *)
      <<<<104, 97, 114, 114, 59>>, <<8596>>>>, (* harr; *)
      <<<<104, 97, 114, 114, 99, 105, 114, 59>>, <<10568>>>>, (* harrcir; *)
      <<<<104, 97, 114, 114, 119, 59>>, <<8621>>>>, (* harrw; *)
      <<<<104, 98, 97, 114, 59>>, <<8463>>>>, (* hbar; *)
      <<<<104, 99, 105, 114, 99, 59>>, <<293>>>>, (* hcirc; *)
      <<<<104, 101, 97, 114, 116, 115, 59>>, <<9829>>>>, (* hearts; *)
      <<<<104, 101, 97, 114, 116, 115, 117, 105, 116, 59>>, <<9829>>>>, (* heartsuit; *)
      <<<<104, 101, 108, 108, 105, 112, 59>>, <<8230>>>>, (* hellip; *)
      <<<<104, 101, 114, 99, 111, 110, 59>>, <<8889>>>>, (* hercon; *)
      <<<<104, 102, 114, 59>>, <<120101>>>>, (* hfr; *)
      <<<<104, 107, 115, 101, 97, 114, 111, 119, 59>>, <<10533>>>>, (* hksearow; *)
      <<<<104, 107, 115, 119, 97, 114, 111, 119, 59>>, <<10534>>>>, (* hkswarow; *)
      <<<<104, 111, 97, 114, 114, 59>>, <<8703>>>>, (* hoarr; *)
      <<<<104, 111, 109, 116, 104, 116, 59>>, <<8763>>>>, (* homtht; *)
      <<<<104, 111, 111, 107, 108, 101, 102, 116, 97, 114, 114, 111, 119, 59>>, <<8617>>>>, (* hookleftarrow; *)
      <<<<104, 111, 111, 107, 114, 105, 103, 104, 116, 97, 114, 114, 111, 119, 59>>, <<8618>>>>, (* hookrightarrow; *)
      <<<<104, 111, 112, 102, 59>>, <<120153>>>>, (* hopf; *)
      <<<<104, 111, 114, 98, 97, 114, 59>>, <<8213>>>>, (* horbar; *)
      <<<<104, 115, 99, 114, 59>>, <<119997>>>>, (* hscr; *)
      <<<<104, 115, 108, 97, 115, 104, 59>>, <<8463>>>>, (* hslash; *)
      <<<<104, 115, 116, 114, 111, 107, 59>>, <<295>>>>, (* hstrok; *)
      <<<<104, 121, 98, 117, 108, 108, 59>>, <<8259>>>>, (* hybull; *)
      <<<<104, 121, 112, 104, 101, 110, 59>>, <<8208>>>>, (* hyphen; *)
      <<<<105, 97, 99, 117, 116, 101>>, <<237>>>>, (* iacute *)
      <<<<105, 97, 99, 117, 116, 101, 59>>, <<237>>>>, (* iacute; *)
      <<<<105, 99, 59>>, <<8291>>>>, (* ic; *)
      <<<<105, 99, 105, 114, 99>>, <<238>>>>, (* icirc *)
      <<<<105, 99, 105, 114, 99, 59>>, <<238>>>>, (* icirc; *)
      <<<<105, 99, 121, 59>>, <<1080>>>>, (* icy; *)
      <<<<105, 101, 99, 121, 59>>, <<1077>>>>, (* iecy; *)
      <<<<105, 101, 120, 99, 108>>, <<161>>>>, (* iexcl *)
      <<<<105, 101, 120, 99, 108, 59>>, <<161>>>>, (* iexcl; *)
      <<<<105, 102, 102, 59>>, <<8660>>>>, (* iff; *)
      <<<<105, 102, 114, 59>>, <<120102>>>>, (* ifr; *)
      <<<<105, 103, 114, 97, 118, 101>>, <<236>>>>, (* igrave *)
      <<<<105, 103, 114, 97, 118, 101, 59>>, <<236>>>>, (* igrave; *)
      <<<<105, 105, 59>>, <<8520>>>>, (* ii; *)
      <<<<105, 105, 105, 105, 110, 116, 59>>, <<10764>>>>, (* iiiint; *)
      <<<<105, 105, 105, 110, 116, 59>>, <<8749>>>>, (* iiint; *)
      <<<<105, 105, 110, 102, 105, 110, 59>>, <<10716>>>>, (* iinfin; *)
      <<<<105, 105, 111, 116, 97, 59>>, <<8489>>>>, (* iiota; *)
      <<<<105, 106, 108, 105, 103, 59>>, <<307>>>>, (* ijlig; *)
      <<<<105, 109, 97, 99, 114, 59>>, <<299>>>>, (* imacr; *)
      <<<<105, 109, 97, 103, 101, 59>>, <<8465>>>>, (* image; *)
      <<<<105, 109, 97, 103, 108, 105, 110, 101, 59>>, <<8464>>>>, (* imagline; *)
      <<<<105, 109, 97, 103, 112, 97, 114, 116, 59>>, <<8465>>>>, (* imagpart; *)
      <<<<105, 109, 97, 116, 104, 59>>, <<305>>>>, (* imath; *)
      <<<<105, 109, 111, 102, 59>>, <<8887>>>>, (* imof; *)
      <<<<105, 109, 112, 101, 100, 59>>, <<437>>>>, (* imped; *)
      <<<<105, 110, 59>>, <<8712>>>>, (* in; *)
      <<<<105, 110, 99, 97, 114, 101, 59>>, <<8453>>>>, (* incare; *)
      <<<<105, 110, 102, 105, 110, 59>>, <<8734>>>>, (* infin; *)
      <<<<105, 110, 102, 105, 110, 116, 105, 101, 59>>, <<10717>>>>, (* infintie; *)
      <<<<105, 110, 111, 100, 111, 116, 59>>, <<305>>>>, (* inodot; *)
      <<<<105, 110, 116, 59>>, <<8747>>>>, (* int; *)
      <<<<105, 110, 116, 99, 97, 108, 59>>, <<8890>>>>, (* intcal; *)
      <<<<105, 110, 116, 101, 103, 101, 114, 115, 59>>, <<8484>>>>, (* integers; *)
      <<<<105, 110, 116, 101, 114, 99, 97, 108, 59>>, <<8890>>>>, (* intercal; *)
      <<<<105, 110, 116, 108, 97, 114, 104, 107, 59>>, <<10775>>>>, (* intlarhk; *)
      <<<<105, 110, 116, 112, 114, 111, 100, 59>>, <<10812>>>>, (* intprod; *)
      <<<<105, 111, 99, 121, 59>>, <<1105>>>>, (* iocy; *)
      <<<<105, 111, 103, 111, 110, 59>>, <<303>>>>, (* iogon; *)
      <<<<105, 111, 112, 102, 59>>, <<120154>>>>, (* iopf; *)
      <<<<105, 111, 116, 97, 59>>, <<953>>>>, (* iota; *)
      <<<<105, 112, 114, 111, 100, 59>>, <<10812>>>>, (* iprod; *)
      <<<<105, 113, 117, 101, 115, 116>>, <<191>>>>, (* iquest *)
      <<<<105, 113, 117, 101, 115, 116, 59>>, <<191>>>>, (* iquest; *)
      <<<<105, 115, 99, 114, 59>>, <<119998>>>>, (* iscr; *)
      <<<<105, 115, 105, 110, 59>>, <<8712>>>>, (* isin; *)
      <<<<105, 115, 105, 110, 69, 59>>, <<8953>>>>, (* isinE; *)
      <<<<105, 115, 105, 110, 100, 111, 116, 59>>, <<8949>>>>, (* isindot; *)
      <<<<105, 115, 105, 110, 115, 59>>, <<8948>>>>, (* isins; *)
      <<<<105, 115, 105, 110, 115, 118, 59>>, <<8947>>>>, (* isinsv; *)
      <<<<105, 115, 105, 110, 118, 59>>, <<8712>>>>, (* isinv; *)
      <<<<105, 116, 59>>, <<8290>>>>, (* it; *)
      <<<<105, 116, 105, 108, 100, 101, 59>>, <<297>>>>, (* itilde; *)
      <<<<105, 117, 107, 99, 121, 59>>, <<1110>>>>, (* iukcy; *)
      <<<<105, 117, 109, 108>>, <<239>>>>, (* iuml *)
      <<<<105, 117, 109, 108, 59>>, <<239>>>>, (* iuml; *)
      <<<<106, 99, 105, 114, 99, 59>>, <<309>>>>, (* jcirc; *)
      <<<<106, 99, 121, 59>>, <<1081>>>>, (* jcy; *)
      <<<<106, 102, 114, 59>>, <<120103>>>>, (* jfr; *)
      <<<<106, 109, 97, 116, 104, 59>>, <<567>>>>, (* jmath; *)
      <<<<106, 111, 112, 102, 59>>, <<120155>>>>, (* jopf; *)
      <<<<106, 115, 99, 114, 59>>, <<119999>>>>, (* jscr; *)
      <<<<106, 115, 101, 114, 99, 121, 59>>, <<1112>>>>, (* jsercy; *)
      <<<<106, 117, 107, 99, 121, 59>>, <<1108>>>>, (* jukcy; *)
      <<<<107, 97, 112, 112, 97, 59>>, <<954>>>>, (* kappa; *)
      <<<<107, 97, 112, 112, 97, 118, 59>>, <<1008>>>>, (* kappav; *)
      <<<<107, 99, 101, 100, 105, 108, 59>>, <<311>>>>, (* kcedil; *)
      <<<<107, 99, 121, 59>>, <<1082>>>>, (* kcy; *)
      <<<<107, 102, 114, 59>>, <<120104>>>>, (* kfr; *)
      <<<<107, 103, 114, 101, 101, 110, 59>>, <<312>>>>, (* kgreen; *)
      <<<<107, 104, 99, 121, 59>>, <<1093>>>>, (* khcy; *)
      <<<<107, 106, 99, 121, 59>>, <<1116>>>>, (* kjcy; *)
      <<<<107, 111, 112, 102, 59>>, <<120156>>>>, (* kopf; *)
      <<<<107, 115, 99, 114, 59>>, <<120000>>>>, (* kscr; *)
      <<<<108, 65, 97, 114, 114, 59>>, <<8666>>>>, (* lAarr; *)
      <<<<108, 65, 114, 114, 59>>, <<8656>>>>, (* lArr; *)
      <<<<108, 65, 116, 97, 105, 108, 59>>, <<10523>>>>, (* lAtail; *)
      <<<<108, 66, 97, 114, 114, 59>>, <<10510>>>>, (* lBarr; *)
      <<<<108, 69, 59>>, <<8806>>>>, (* lE; *)
      <<<<108, 69, 103, 59>>, <<10891>>>>, (* lEg; *)
      <<<<108, 72, 97, 114, 59>>, <<10594>>>>, (* lHar; *)
      <<<<108, 97, 99, 117, 116, 101, 59>>, <<314>>>>, (* lacute; *)
      <<<<108, 97, 101, 109, 112, 116, 121, 118, 59>>, <<10676>>>>, (* laemptyv; *)
      <<<<108, 97, 103, 114, 97, 110, 59>>, <<8466>>>>, (* lagran; *)
      <<<<108, 97, 109, 98, 100, 97, 59>>, <<955>>>>, (* lambda; *)
      <<<<108, 97, 110, 103, 59>>, <<10216>>>>, (* lang; *)
      <<<<108, 97, 110, 103, 100, 59>>, <<10641>>>>, (* langd; *)
      <<<<108, 97, 110, 103, 108, 101, 59>>, <<10216>>>>, (* langle; *)
      <<<<108, 97, 112, 59>>, <<10885>>>>, (* lap; *)
      <<<<108, 97, 113, 117, 111>>, <<171>>>>, (* laquo *)
      <<<<108, 97, 113, 117, 111, 59>>, <<171>>>>, (* laquo; *)
      <<<<108, 97, 114, 114, 59>>, <<8592>>>>, (* larr; *)
      <<<<108, 97, 114, 114, 98, 59>>, <<8676>>>>, (* larrb; *)
      <<<<108, 97, 114, 114, 98, 102, 115, 59>>, <<10527>>>>, (* larrbfs; *)
      <<<<108, 97, 114, 114, 102, 115, 59>>, <<10525>>>>, (* larrfs; *)
      <<<<108, 97, 114, 114, 104, 107, 59>>, <<8617>>>>, (* larrhk; *)
      <<<<108, 97, 114, 114, 108, 112, 59>>, <<8619>>>>, (* larrlp; *)
      <<<<108, 97, 114, 114, 112, 108, 59>>, <<10553>>>>, (* larrpl; *)
      <<<<108, 97, 114, 114, 115, 105, 109, 59>>, <<10611>>>>, (* larrsim; *)
      <<<<108, 97, 114, 114, 116, 108, 59>>, <<8610>>>>, (* larrtl; *)
      <<<<108, 97, 116, 59>>, <<10923>>>>, (* lat; *)
      <<<<108, 97, 116, 97, 105, 108, 59>>, <<10521>>>>, (* latail; *)
      <<<<108, 97, 116, 101, 59>>, <<10925>>>>, (* late; *)
      <<<<108, 97, 116, 101, 115, 59>>, <<10925, 65024>>>>, (* lates; *)
      <<<<108, 98, 97, 114, 114, 59>>, <<10508>>>>, (* lbarr; *)
      <<<<108, 98, 98, 114, 107, 59>>, <<10098>>>>, (* lbbrk; *)
      <<<<108, 98, 114, 97, 99, 101, 59>>, <<123>>>>, (* lbrace; *)
      <<<<108, 98, 114, 97, 99, 107, 59>>, <<91>>>>, (* lbrack; *)
      <<<<108, 98, 114, 107, 101, 59>>, <<10635>>>>, (* lbrke; *)
      <<<<108, 98, 114, 107, 115, 108, 100, 59>>, <<10639>>>>, (* lbrksld; *)
      <<<<108, 98, 114, 107, 115, 108, 117, 59>>, <<10637>>>>, (* lbrkslu; *)
      <<<<108, 99, 97, 114, 111, 110, 59>>, <<318>>>>, (* lcaron; *)
      <<<<108, 99, 101, 100, 105, 108, 59>>, <<316>>>>, (* lcedil; *)
      <<<<108, 99, 101, 105, 108, 59>>, <<8968>>>>, (* lceil; *)
      <<<<108, 99, 117, 98, 59>>, <<123>>>>, (* lcub; *)
      <<<<108, 99, 121, 59>>, <<1083>>>>, (* lcy; *)
      <<<<108, 100, 99, 97, 59>>, <<10550>>>>, (* ldca; *)
      <<<<108, 100, 113, 117, 111, 59>>, <<8220>>>>, (* ldquo; *)
      <<<<108, 100, 113, 117, 111, 114, 59>>, <<8222>>>>, (* ldquor; *)
      <<<<108, 100, 114, 100, 104, 97, 114, 59>>, <<10599>>>>, (* ldrdhar; *)
      <<<<108, 100, 114, 117, 115, 104, 97, 114, 59>>, <<10571>>>>, (* ldrushar; *)
      <<<<108, 100, 115, 104, 59>>, <<8626>>>>, (* ldsh; *)
      <<<<108, 101, 59>>, <<8804>>>>, (* le; *)
      <<<<108, 101, 102, 116, 97, 114, 114, 111, 119, 59>>, <<8592>>>>, (* leftarrow; *)
      <<<<108, 101, 102, 116, 97, 114, 114, 111, 119, 116, 97, 105, 108, 59>>, <<8610>>>>, (* leftarrowtail; *)
      <<<<108, 101, 102, 116, 104, 97, 114, 112, 111, 111, 110, 100, 111, 119, 110, 59>>, <<8637>>>>, (* leftharpoondown; *)
      <<<<108, 101, 102, 116, 104, 97, 114, 112, 111, 111, 110, 117, 112, 59>>, <<8636>>>>, (* leftharpoonup; *)
      <<<<108, 101, 102, 116, 108, 101, 102, 116, 97, 114, 114, 111, 119, 115, 59>>, <<8647>>>>, (* leftleftarrows; *)
      <<<<108, 101, 102, 116, 114, 105, 103, 104, 116, 97, 114, 114, 111, 119, 59>>, <<8596>>>>, (* leftrightarrow; *)
      <<<<108, 101, 102, 116, 114, 105, 103, 104, 116, 97, 114, 114, 111, 119, 115, 59>>, <<8646>>>>, (* leftrightarrows; *)
      <<<<108, 101, 102, 116, 114, 105, 103, 104, 116, 104, 97, 114, 112, 111, 111, 110, 115, 59>>, <<8651>>>>, (* leftrightharpoons; *)
      <<<<108, 101, 102, 116, 114, 105, 103, 104, 116, 115, 113, 117, 105, 103, 97, 114, 114, 111, 119, 59>>, <<8621>>>>, (* leftrightsquigarrow; *)
      <<<<108, 101, 102, 116, 116, 104, 114, 101, 101, 116, 105, 109, 101, 115, 59>>, <<8907>>>>, (* leftthreetimes; *)
      <<<<108, 101, 103, 59>>, <<8922>>>>, (* leg; *)
      <<<<108, 101, 113, 59>>, <<8804>>>>, (* leq; *)
      <<<<108, 101, 113, 113, 59>>, <<8806>>>>, (* leqq; *)
      <<<<108, 101, 113, 115, 108, 97, 110, 116, 59>>, <<10877>>>>, (* leqslant; *)
      <<<<108, 101, 115, 59>>, <<10877>>>>, (* les; *)
      <<<<108, 101, 115, 99, 99, 59>>, <<10920>>>>, (* lescc; *)
      <<<<108, 101, 115, 100, 111, 116, 59>>, <<10879>>>>, (* lesdot; *)
      <<<<108, 101, 115, 100, 111, 116, 111, 59>>, <<10881>>>>, (* lesdoto; *)
      <<<<108, 101, 115, 100, 111, 116, 111, 114, 59>>, <<10883>>>>, (* lesdotor; *)
      <<<<108, 101, 115, 103, 59>>, <<8922, 65024>>>>, (* lesg; *)
      <<<<108, 101, 115, 103, 101, 115, 59>>, <<10899>>>>, (* lesges; *)
      <<<<108, 101, 115, 115, 97, 112, 112, 114, 111, 120, 59>>, <<10885>>>>, (* lessapprox; *)
      <<<<108, 101, 115, 115, 100, 111, 116, 59>>, <<8918>>>>, (* lessdot; *)
      <<<<108, 101, 115, 115, 101, 113, 103, 116, 114, 59>>, <<8922>>>>, (* lesseqgtr; *)
      <<<<108, 101, 115, 115, 101, 113, 113, 103, 116, 114, 59>>, <<10891>>>>, (* lesseqqgtr; *)
      <<<<108, 101, 115, 115, 103, 116, 114, 59>>, <<8822>>>>, (* lessgtr; *)
      <<<<108, 101, 115, 115, 115, 105, 109, 59>>, <<8818>>>>, (* lesssim; *)
      <<<<108, 102, 105, 115, 104, 116, 59>>, <<10620>>>>, (* lfisht; *)
      <<<<108, 102, 108, 111, 111, 114, 59>>, <<8970>>>>, (* lfloor; *)
      <<<<108, 102, 114, 59>>, <<120105>>>>, (* lfr; *)
      <<<<108, 103, 59>>, <<8822>>>>, (* lg; *)
      <<<<108, 103, 69, 59>>, <<10897>>>>, (* lgE; *)
      <<<<108, 104, 97, 114, 100, 59>>, <<8637>>>>, (* lhard; *)
      <<<<108, 104, 97, 114, 117, 59>>, <<8636>>>>, (* lharu; *)
      <<<<108, 104, 97, 114, 117, 108, 59>>, <<10602>>>>, (* lharul; *)
      <<<<108, 104, 98, 108, 107, 59>>, <<9604>>>>, (* lhblk; *)
      <<<<108, 106, 99, 121, 59>>, <<1113>>>>, (* ljcy; *)
      <<<<108, 108, 59>>, <<8810>>>>, (* ll; *)
      <<<<108, 108, 97, 114, 114, 59>>, <<8647>>>>, (* llarr; *)
      <<<<108, 108, 99, 111, 114, 110, 101, 114, 59>>, <<8990>>>>, (* llcorner; *)
      <<<<108, 108, 104, 97, 114, 100, 59>>, <<10603>>>>, (* llhard; *)
      <<<<108, 108, 116, 114, 105, 59>>, <<9722>>>>, (* lltri; *)
      <<<<108, 109, 105, 100, 111, 116, 59>>, <<320>>>>, (* lmidot; *)
      <<<<108, 109, 111, 117, 115, 116, 59>>, <<9136>>>>, (* lmoust; *)
      <<<<108, 109, 111, 117, 115, 116, 97, 99, 104, 101, 59>>, <<9136>>>>, (* lmoustache; *)
      <<<<108, 110, 69, 59>>, <<8808>>>>, (* lnE; *)
      <<<<108, 110, 97, 112, 59>>, <<10889>>>>, (* lnap; *)
      <<<<108, 110, 97, 112, 112, 114, 111, 120, 59>>, <<10889>>>>, (* lnapprox; *)
      <<<<108, 110, 101, 59>>, <<10887>>>>, (* lne; *)
      <<<<108, 110, 101, 113, 59>>, <<10887>>>>, (* lneq; *)
      <<<<108, 110, 101, 113, 113, 59>>, <<8808>>>>, (* lneqq; *)
      <<<<108, 110, 115, 105, 109, 59>>, <<8934>>>>, (* lnsim; *)
      <<<<108, 111, 97, 110, 103, 59>>, <<10220>>>>, (* loang; *)
      <<<<108, 111, 97, 114, 114, 59>>, <<8701>>>>, (* loarr; *)
      <<<<108, 111, 98, 114, 107, 59>>, <<10214>>>>, (* lobrk; *)
      <<<<108, 111, 110, 103, 108, 101, 102, 116, 97, 114, 114, 111, 119, 59>>, <<10229>>>>, (* longleftarrow; *)
      <<<<108, 111, 110, 103, 108, 101, 102, 116, 114, 105, 103, 104, 116, 97, 114, 114, 111, 119, 59>>, <<10231>>>>, (* longleftrightarrow; *)
      <<<<108, 111, 110, 103, 109, 97, 112, 115, 116, 111, 59>>, <<10236>>>>, (* longmapsto; *)
      <<<<108, 111, 110, 103, 114, 105, 103, 104, 116, 97, 114, 114, 111, 119, 59>>, <<10230>>>>, (* longrightarrow; *)
      <<<<108, 111, 111, 112, 97, 114, 114, 111, 119, 108, 101, 102, 116, 59>>, <<8619>>>>, (* looparrowleft; *)
      <<<<108, 111, 111, 112, 97, 114, 114, 111, 119, 114, 105, 103, 104, 116, 59>>, <<8620>>>>, (* looparrowright; *)
      <<<<108, 111, 112, 97, 114, 59>>, <<10629>>>>, (* lopar; *)
      <<<<108, 111, 112, 102, 59>>, <<120157>>>>, (* lopf; *)
      <<<<108, 111, 112, 108, 117, 115, 59>>, <<10797>>>>, (* loplus; *)
      <<<<108, 111, 116, 105, 109, 101, 115, 59>>, <<10804>>>>, (* lotimes; *)
      <<<<108, 111, 119, 97, 115, 116, 59>>, <<8727>>>>, (* lowast; *)
      <<<<108, 111, 119, 98, 97, 114, 59>>, <<95>>>>, (* lowbar; *)
      <<<<108, 111, 122, 59>>, <<9674>>>>, (* loz; *)
      <<<<108, 111, 122, 101, 110, 103, 101, 59>>, <<9674>>>>, (* lozenge; *)
      <<<<108, 111, 122, 102, 59>>, <<10731>>>>, (* lozf; *)
      <<<<108, 112, 97, 114, 59>>, <<40>>>>, (* lpar; *)
      <<<<108, 112, 97, 114, 108, 116, 59>>, <<10643>>>>, (* lparlt; *)
      <<<<108, 114, 97, 114, 114, 59>>, <<8646>>>>, (* lrarr; *)
      <<<<108, 114, 99, 111, 114, 110, 101, 114, 59>>, <<8991>>>>, (* lrcorner; *)
      <<<<108, 114, 104, 97, 114, 59>>, <<8651>>>>, (* lrhar; *)
      <<<<108, 114, 104, 97, 114, 100, 59>>, <<10605>>>>, (* lrhard; *)
      <<<<108, 114, 109, 59>>, <<8206>>>>, (* lrm; *)
      <<<<108, 114, 116, 114, 105, 59>>, <<8895>>>>, (* lrtri; *)
      <<<<108, 115, 97, 113, 117, 111, 59>>, <<8249>>>>, (* lsaquo; *)
      <<<<108, 115, 99, 114, 59>>, <<120001>>>>, (* lscr; *)
      <<<<108, 115, 104, 59>>, <<8624>>>>, (* lsh; *)
      <<<<108, 115, 105, 109, 59>>, <<8818>>>>, (* lsim; *)
      <<<<108, 115, 105, 109, 101, 59>>, <<10893>>>>, (* lsime; *)
      <<<<108, 115, 105, 109, 103, 59>>, <<10895>>>>, (* lsimg; *)
      <<<<108, 115, 113, 98, 59>>, <<91>>>>, (* lsqb; *)
      <<<<108, 115, 113, 117, 111, 59>>, <<8216>>>>, (* lsquo; *)
      <<<<108, 115, 113, 117, 111, 114, 59>>, <<8218>>>>, (* lsquor; *)
      <<<<108, 115, 116, 114, 111, 107, 59>>, <<322>>>>, (* lstrok; *)
      <<<<108, 116>>, <<60>>>>, (* lt *)
      <<<<108, 116, 59>>, <<60>>>>, (* lt; *)
      <<<<108, 116, 99, 99, 59>>, <<10918>>>>, (* ltcc; *)
      <<<<108, 116, 99, 105, 114, 59>>, <<10873>>>>, (* ltcir; *)
      <<<<108, 116, 100, 111, 116, 59>>, <<8918>>>>, (* ltdot; *)
      <<<<108, 116, 104, 114, 101, 101, 59>>, <<8907>>>>, (* lthree; *)
      <<<<108, 116, 105, 109, 101, 115, 59>>, <<8905>>>>, (* ltimes; *)
      <<<<108, 116, 108, 97, 114, 114, 59>>, <<10614>>>>, (* ltlarr; *)
      <<<<108, 116, 113, 117, 101, 115, 116, 59>>, <<10875>>>>, (* ltquest; *)
      <<<<108, 116, 114, 80, 97, 114, 59>>, <<10646>>>>, (* ltrPar; *)
      <<<<108, 116, 114, 105, 59>>, <<9667>>>>, (* ltri; *)
      <<<<108, 116, 114, 105, 101, 59>>, <<8884>>>>, (* ltrie; *)
      <<<<108, 116, 114, 105, 102, 59>>, <<9666>>>>, (* ltrif; *)
      <<<<108, 117, 114, 100, 115, 104, 97, 114, 59>>, <<10570>>>>, (* lurdshar; *)
      <<<<108, 117, 114, 117, 104, 97, 114, 59>>, <<10598>>>>, (* luruhar; *)
      <<<<108, 118, 101, 114, 116, 110, 101, 113, 113, 59>>, <<8808, 65024>>>>, (* lvertneqq; *)
      <<<<108, 118, 110, 69, 59>>, <<8808, 65024>>>>, (* lvnE; *)
      <<<<109, 68, 68, 111, 116, 59>>, <<8762>>>>, (* mDDot; *)
      <<<<109, 97, 99, 114>>, <<175>>>>, (* macr *)
      <<<<109, 97, 99, 114, 59>>, <<175>>>>, (* macr; *)
      <<<<109, 97, 108, 101, 59>>, <<9794>>>>, (* male; *)
      <<<<109, 97, 108, 116, 59>>, <<10016>>>>, (* malt; *)
      <<<<109, 97, 108, 116, 101, 115, 101, 59>>, <<10016>>>>, (* maltese; *)
      <<<<109, 97, 112, 59>>, <<8614>>>>, (* map; *)
      <<<<109, 97, 112, 115, 116, 111, 59>>, <<8614>>>>, (* mapsto; *)
      <<<<109, 97, 112, 115, 116, 111, 100, 111, 119, 110, 59>>, <<8615>>>>, (* mapstodown; *)
      <<<<109, 97, 112, 115, 116, 111, 108, 101, 102, 116, 59>>, <<8612>>>>, (* mapstoleft; *)
      <<<<109, 97, 112, 115, 116, 111, 117, 112, 59>>, <<8613>>>>, (* mapstoup; *)
      <<<<109, 97, 114, 107, 101, 114, 59>>, <<9646>>>>, (* marker; *)
      <<<<109, 99, 111, 109, 109, 97, 59>>, <<10793>>>>, (* mcomma; *)
      <<<<109, 99, 121, 59>>, <<1084>>>>, (* mcy; *)
      <<<<109, 100, 97, 115, 104, 59>>, <<8212>>>>, (* mdash; *)
      <<<<109, 101, 97, 115, 117, 114, 101, 100, 97, 110, 103, 108, 101, 59>>, <<8737>>>>, (* measuredangle; *)
      <<<<109, 102, 114, 59>>, <<120106>>>>, (* mfr; *)
      <<<<109, 104, 111, 59>>, <<8487>>>>, (* mho; *)
      <<<<109, 105, 99, 114, 111>>, <<181>>>>, (* micro *)
      <<<<109, 105, 99, 114, 111, 59>>, <<181>>>>, (* micro; *)
      <<<<109, 105, 100, 59>>, <<8739>>>>, (* mid; *)
      <<<<109, 105, 100, 97, 115, 116, 59>>, <<42>>>>, (* midast; *)
      <<<<109, 105, 100, 99, 105, 114, 59>>, <<10992>>>>, (* midcir; *)
      <<<<109, 105, 100, 100, 111, 116>>, <<183>>>>, (* middot *)
      <<<<109, 105, 100, 100, 111, 116, 59>>, <<183>>>>, (* middot; *)
      <<<<109, 105, 110, 117, 115, 59>>, <<8722>>>>, (* minus; *)
      <<<<109, 105, 110, 117, 115, 98, 59>>, <<8863>>>>, (* minusb; *)
      <<<<109, 105, 110, 117, 115, 100, 59>>, <<8760>>>>, (* minusd; *)
      <<<<109, 105, 110, 117, 115, 100, 117, 59>>, <<10794>>>>, (* minusdu; *)
      <<<<109, 108, 99, 112, 59>>, <<10971>>>>, (* mlcp; *)
      <<<<109, 108, 100, 114, 59>>, <<8230>>>>, (* mldr; *)
      <<<<109, 110, 112, 108, 117, 115, 59>>, <<8723>>>>, (* mnplus; *)
      <<<<109, 111, 100, 101, 108, 115, 59>>, <<8871>>>>, (* models; *)
      <<<<109, 111, 112, 102, 59>>, <<120158>>>>, (* mopf; *)
      <<<<109, 112, 59>>, <<8723>>>>, (* mp; *)
      <<<<109, 115, 99, 114, 59>>, <<120002>>>>, (* mscr; *)
      <<<<109, 115, 116, 112, 111, 115, 59>>, <<8766>>>>, (* mstpos; *)
      <<<<109, 117, 59>>, <<956>>>>, (* mu; *)
      <<<<109, 117, 108, 116, 105, 109, 97, 112, 59>>, <<8888>>>>, (* multimap; *)
      <<<<109, 117, 109, 97, 112, 59>>, <<8888>>>>, (* mumap; *)
      <<<<110, 71, 103, 59>>, <<8921, 824>>>>, (* nGg; *)
      <<<<110, 71, 116, 59>>, <<8811, 8402>>>>, (* nGt; *)
      <<<<110, 71, 116, 118, 59>>, <<8811, 824>>>>, (* nGtv; *)
      <<<<110, 76, 101, 102, 116, 97, 114, 114, 111, 119, 59>>, <<8653>>>>, (* nLeftarrow; *)
      <<<<110, 76, 101, 102, 116, 114, 105, 103, 104, 116, 97, 114, 114, 111, 119, 59>>, <<8654>>>>, (* nLeftrightarrow; *)
      <<<<110, 76, 108, 59>>, <<8920, 824>>>>, (* nLl; *)
      <<<<110, 76, 116, 59>>, <<8810, 8402>>>>, (* nLt; *)
      <<<<110, 76, 116, 118, 59>>, <<8810, 824>>>>, (* nLtv; *)
      <<<<110, 82, 105, 103, 104, 116, 97, 114, 114, 111, 119, 59>>, <<8655>>>>, (* nRightarrow; *)
      <<<<110, 86, 68, 97, 115, 104, 59>>, <<8879>>>>, (* nVDash; *)
      <<<<110, 86, 100, 97, 115, 104, 59>>, <<8878>>>>, (* nVdash; *)
      <<<<110, 97, 98, 108, 97, 59>>, <<8711>>>>, (* nabla; *)
      <<<<110, 97, 99, 117, 116, 101, 59>>, <<324>>>>, (* nacute; *)
      <<<<110, 97, 110, 103, 59>>, <<8736, 8402>>>>, (* nang; *)
      <<<<110, 97, 112, 59>>, <<8777>>>>, (* nap; *)
      <<<<110, 97, 112, 69, 59>>, <<10864, 824>>>>, (* napE; *)
      <<<<110, 97, 112, 105, 100, 59>>, <<8779, 824>>>>, (* napid; *)
      <<<<110, 97, 112, 111, 115, 59>>, <<329>>>>, (* napos; *)
      <<<<110, 97, 112, 112, 114, 111, 120, 59>>, <<8777>>>>, (* napprox; *)
      <<<<110, 97, 116, 117, 114, 59>>, <<9838>>>>, (* natur; *)
      <<<<110, 97, 116, 117, 114, 97, 108, 59>>, <<9838>>>>, (* natural; *)
      <<<<110, 97, 116, 117, 114, 97, 108, 115, 59>>, <<8469>>>>, (* naturals; *)
      <<<<110, 98, 115, 112>>, <<160>>>>, (* nbsp *)
      <<<<110, 98, 115, 112, 59>>, <<160>>>>, (* nbsp; *)
      <<<<110, 98, 117, 109, 112, 59>>, <<8782, 824>>>>, (* nbump; *)
      <<<<110, 98, 117, 109, 112, 101, 59>>, <<8783, 824>>>>, (* nbumpe; *)
      <<<<110, 99, 97, 112, 59>>, <<10819>>>>, (* ncap; *)
      <<<<110, 99, 97, 114, 111, 110, 59>>, <<328>>>>, (* ncaron; *)
      <<<<110, 99, 101, 100, 105, 108, 59>>, <<326>>>>, (* ncedil; *)
      <<<<110, 99, 111, 110, 103, 59>>, <<8775>>>>, (* ncong; *)
      <<<<110, 99, 111, 110, 103, 100, 111, 116, 59>>, <<10861, 824>>>>, (* ncongdot; *)
      <<<<110, 99, 117, 112, 59>>, <<10818>>>>, (* ncup; *)
      <<<<110, 99, 121, 59>>, <<1085>>>>, (* ncy; *)
      <<<<110, 100, 97, 115, 104, 59>>, <<8211>>>>, (* ndash; *)
      <<<<110, 101, 59>>, <<8800>>>>, (* ne; *)
      <<<<110, 101, 65, 114, 114, 59>>, <<8663>>>>, (* neArr; *)
      <<<<110, 101, 97, 114, 104, 107, 59>>, <<10532>>>>, (* nearhk; *)
      <<<<110, 101, 97, 114, 114, 59>>, <<8599>>>>, (* nearr; *)
      <<<<110, 101, 97, 114, 114, 111, 119, 59>>, <<8599>>>>, (* nearrow; *)
      <<<<110, 101, 100, 111, 116, 59>>, <<8784, 824>>>>, (* nedot; *)
      <<<<110, 101, 113, 117, 105, 118, 59>>, <<8802>>>>, (* nequiv; *)
      <<<<110, 101, 115, 101, 97, 114, 59>>, <<10536>>>>, (* nesear; *)
      <<<<110, 101, 115, 105, 109, 59>>, <<8770, 824>>>>, (* nesim; *)
      <<<<110, 101, 120, 105, 115, 116, 59>>, <<8708>>>>, (* nexist; *)
      <<<<110, 101, 120, 105, 115, 116, 115, 59>>, <<8708>>>>, (* nexists; *)
      <<<<110, 102, 114, 59>>, <<120107>>>>, (* nfr; *)
      <<<<110, 103, 69, 59>>, <<8807, 824>>>>, (* ngE; *)
      <<<<110, 103, 101, 59>>, <<8817>>>>, (* nge; *)
      <<<<110, 103, 101, 113, 59>>, <<8817>>>>, (* ngeq; *)
      <<<<110, 103, 101, 113, 113, 59>>, <<8807, 824>>>>, (* ngeqq; *)
      <<<<110, 103, 101, 113, 115, 108, 97, 110, 116, 59>>, <<10878, 824>>>>, (* ngeqslant; *)
      <<<<110, 103, 101, 115, 59>>, <<10878, 824>>>>, (* nges; *)
      <<<<110, 103, 115, 105, 109, 59>>, <<8821>>>>, (* ngsim; *)
      <<<<110, 103, 116, 59>>, <<8815>>>>, (* ngt; *)
      <<<<110, 103, 116, 114, 59>>, <<8815>>>>, (* ngtr; *)
      <<<<110, 104, 65, 114, 114, 59>>, <<8654>>>>, (* nhArr; *)
      <<<<110, 104, 97, 114, 114, 59>>, <<8622>>>>, (* nharr; *)
      <<<<110, 104, 112, 97, 114, 59>>, <<10994>>>>, (* nhpar; *)
      <<<<110, 105, 59>>, <<8715>>>>, (* ni; *)
      <<<<110, 105, 115, 59>>, <<8956>>>>, (* nis; *)
      <<<<110, 105, 115, 100, 59>>, <<8954>>>>, (* nisd; *)
      <<<<110, 105, 118, 59>>, <<8715>>>>, (* niv; *)
      <<<<110, 106, 99, 121, 59>>, <<1114>>>>, (* njcy; *)
      <<<<110, 108, 65, 114, 114, 59>>, <<8653>>>>, (* nlArr; *)
      <<<<110, 108, 69, 59>>, <<8806, 824>>>>, (* nlE; *)
      <<<<110, 108, 97, 114, 114, 59>>, <<8602>>>>, (* nlarr; *)
      <<<<110, 108, 100, 114, 59>>, <<8229>>>>, (* nldr; *)
      <<<<110, 108, 101, 59>>, <<8816>>>>, (* nle; *)
      <<<<110, 108, 101, 102, 116, 97, 114, 114, 111, 119, 59>>, <<8602>>>>, (* nleftarrow; *)
      <<<<110, 108, 101, 102, 116, 114, 105, 103, 104, 116, 97, 114, 114, 111, 119, 59>>, <<8622>>>>, (* nleftrightarrow; *)
      <<<<110, 108, 101, 113, 59>>, <<8816>>>>, (* nleq; *)
      <<<<110, 108, 101, 113, 113, 59>>, <<8806, 824>>>>, (* nleqq; *)
      <<<<110, 108, 101, 113, 115, 108, 97, 110, 116, 59>>, <<10877, 824>>>>, (* nleqslant; *)
      <<<<110, 108, 101, 115, 59>>, <<10877, 824>>>>, (* nles; *)
      <<<<110, 108, 101, 115, 115, 59>>, <<8814>>>>, (* nless; *)
      <<<<110, 108, 115, 105, 109, 59>>, <<8820>>>>, (* nlsim; *)
      <<<<110, 108, 116, 59>>, <<8814>>>>, (* nlt; *)
      <<<<110, 108, 116, 114, 105, 59>>, <<8938>>>>, (* nltri; *)
      <<<<110, 108, 116, 114, 105, 101, 59>>, <<8940>>>>, (* nltrie; *)
      <<<<110, 109, 105, 100, 59>>, <<8740>>>>, (* nmid; *)
      <<<<110, 111, 112, 102, 59>>, <<120159>>>>, (* nopf; *)
      <<<<110, 111, 116>>, <<172>>>>, (* not *)
      <<<<110, 111, 116, 59>>, <<172>>>>, (* not; *)
      <<<<110, 111, 116, 105, 110, 59>>, <<8713>>>>, (* notin; *)
      <<<<110, 111, 116, 105, 110, 69, 59>>, <<8953, 824>>>>, (* notinE; *)
      <<<<110, 111, 116, 105, 110, 100, 111, 116, 59>>, <<8949, 824>>>>, (* notindot; *)
      <<<<110, 111, 116, 105, 110, 118, 97, 59>>, <<8713>>>>, (* notinva; *)
      <<<<110, 111, 116, 105, 110, 118, 98, 59>>, <<8951>>>>, (* notinvb; *)
      <<<<110, 111, 116, 105, 110, 118, 99, 59>>, <<8950>>>>, (* notinvc; *)
      <<<<110, 111, 116, 110, 105, 59>>, <<8716>>>>, (* notni; *)
      <<<<110, 111, 116, 110, 105, 118, 97, 59>>, <<8716>>>>, (* notniva; *)
      <<<<110, 111, 116, 110, 105, 118, 98, 59>>, <<8958>>>>, (* notnivb; *)
      <<<<110, 111, 116, 110, 105, 118, 99, 59>>, <<8957>>>>, (* notnivc; *)
      <<<<110, 112, 97, 114, 59>>, <<8742>>>>, (* npar; *)
      <<<<110, 112, 97, 114, 97, 108, 108, 101, 108, 59>>, <<8742>>>>, (* nparallel; *)
      <<<<110, 112, 97, 114, 115, 108, 59>>, <<11005, 8421>>>>, (* nparsl; *)
      <<<<110, 112, 97, 114, 116, 59>>, <<8706, 824>>>>, (* npart; *)
      <<<<110, 112, 111, 108, 105, 110, 116, 59>>, <<10772>>>>, (* npolint; *)
      <<<<110, 112, 114, 59>>, <<8832>>>>, (* npr; *)
      <<<<110, 112, 114, 99, 117, 101, 59>>, <<8928>>>>, (* nprcue; *)
      <<<<110, 112, 114, 101, 59>>, <<10927, 824>>>>, (* npre; *)
      <<<<110, 112, 114, 101, 99, 59>>, <<8832>>>>, (* nprec; *)
      <<<<110, 112, 114, 101, 99, 101, 113, 59>>, <<10927, 824>>>>, (* npreceq; *)
      <<<<110, 114, 65, 114, 114, 59>>, <<8655>>>>, (* nrArr; *)
      <<<<110, 114, 97, 114, 114, 59>>, <<8603>>>>, (* nrarr; *)
      <<<<110, 114, 97, 114, 114, 99, 59>>, <<10547, 824>>>>, (* nrarrc; *)
      <<<<110, 114, 97, 114, 114, 119, 59>>, <<8605, 824>>>>, (* nrarrw; *)
      <<<<110, 114, 105, 103, 104, 116, 97, 114, 114, 111, 119, 59>>, <<8603>>>>, (* nrightarrow; *)
      <<<<110, 114, 116, 114, 105, 59>>, <<8939>>>>, (* nrtri; *)
      <<<<110, 114, 116, 114, 105, 101, 59>>, <<8941>>>>, (* nrtrie; *)
      <<<<110, 115, 99, 59>>, <<8833>>>>, (* nsc; *)
      <<<<110, 115, 99, 99, 117, 101, 59>>, <<8929>>>>, (* nsccue; *)
      <<<<110, 115, 99, 101, 59>>, <<10928, 824>>>>, (* nsce; *)
      <<<<110, 115, 99, 114, 59>>, <<120003>>>>, (* nscr; *)
      <<<<110, 115, 104, 111, 114, 116, 109, 105, 100, 59>>, <<8740>>>>, (* nshortmid; *)
      <<<<110, 115, 104, 111, 114, 116, 112, 97, 114, 97, 108, 108, 101, 108, 59>>, <<8742>>>>, (* nshortparallel; *)
      <<<<110, 115, 105, 109, 59>>, <<8769>>>>, (* nsim; *)
      <<<<110, 115, 105, 109, 101, 59>>, <<8772>>>>, (* nsime; *)
      <<<<110, 115, 105, 109, 101, 113, 59>>, <<8772>>>>, (* nsimeq; *)
      <<<<110, 115, 109, 105, 100, 59>>, <<8740>>>>, (* nsmid; *)
      <<<<110, 115, 112, 97, 114, 59>>, <<8742>>>>, (* nspar; *)
      <<<<110, 115, 113, 115, 117, 98, 101, 59>>, <<8930>>>>, (* nsqsube; *)
      <<<<110, 115, 113, 115, 117, 112, 101, 59>>, <<8931>>>>, (* nsqsupe; *)
      <<<<110, 115, 117, 98, 59>>, <<8836>>>>, (* nsub; *)
      <<<<110, 115, 117, 98, 69, 59>>, <<10949, 824>>>>, (* nsubE; *)
      <<<<110, 115, 117, 98, 101, 59>>, <<8840>>>>, (* nsube; *)
      <<<<110, 115, 117, 98, 115, 101, 116, 59>>, <<8834, 8402>>>>, (* nsubset; *)
      <<<<110, 115, 117, 98, 115, 101, 116, 101, 113, 59>>, <<8840>>>>, (* nsubseteq; *)
      <<<<110, 115, 117, 98, 115, 101, 116, 101, 113, 113, 59>>, <<10949, 824>>>>, (* nsubseteqq; *)
      <<<<110, 115, 117, 99, 99, 59>>, <<8833>>>>, (* nsucc; *)
      <<<<110, 115, 117, 99, 99, 101, 113, 59>>, <<10928, 824>>>>, (* nsucceq; *)
      <<<<110, 115, 117, 112, 59>>, <<8837>>>>, (* nsup; *)
      <<<<110, 115, 117, 112, 69, 59>>, <<10950, 824>>>>, (* nsupE; *)
      <<<<110, 115, 117, 112, 101, 59>>, <<8841>>>>, (* nsupe; *)
      <<<<110, 115, 117, 112, 115, 101, 116, 59>>, <<8835, 8402>>>>, (* nsupset; *)
      <<<<110, 115, 117, 112, 115, 101, 116, 101, 113, 59>>, <<8841>>>>, (* nsupseteq; *)
      <<<<110, 115, 117, 112, 115, 101, 116, 101, 113, 113, 59>>, <<10950, 824>>>>, (* nsupseteqq; *)
      <<<<110, 116, 103, 108, 59>>, <<8825>>>>, (* ntgl; *)
      <<<<110, 116, 105, 108, 100, 101>>, <<241>>>>, (* ntilde *)
      <<<<110, 116, 105, 108, 100, 101, 59>>, <<241>>>>, (* ntilde; *)
      <<<<110, 116, 108, 103, 59>>, <<8824>>>>, (* ntlg; *)
      <<<<110, 116, 114, 105, 97, 110, 103, 108, 101, 108, 101, 102, 116, 59>>, <<8938>>>>, (* ntriangleleft; *)
      <<<<110, 116, 114, 105, 97, 110, 103, 108, 101, 108, 101, 102, 116, 101, 113, 59>>, <<8940>>>>, (* ntrianglelefteq; *)
      <<<<110, 116, 114, 105, 97, 110, 103, 108, 101, 114, 105, 103, 104, 116, 59>>, <<8939>>>>, (* ntriangleright; *)
      <<<<110, 116, 114, 105, 97, 110, 103, 108, 101, 114, 105, 103, 104, 116, 101, 113, 59>>, <<8941>>>>, (* ntrianglerighteq; *)
      <<<<110, 117, 59>>, <<957>>>>, (* nu; *)
      <<<<110, 117, 109, 59>>, <<35>>>>, (* num; *)
      <<<<110, 117, 109, 101, 114, 111, 59>>, <<8470>>>>, (* numero; *)
      <<<<110, 117, 109, 115, 112, 59>>, <<8199>>>>, (* numsp; *)
      <<<<110, 118, 68, 97, 115, 104, 59>>, <<8877>>>>, (* nvDash; *)
      <<<<110, 118, 72, 97, 114, 114, 59>>, <<10500>>>>, (* nvHarr; *)
      <<<<110, 118, 97, 112, 59>>, <<8781, 8402>>>>, (* nvap; *)
      <<<<110, 118, 100, 97, 115, 104, 59>>, <<8876>>>>, (* nvdash; *)
      <<<<110, 118, 103, 101, 59>>, <<8805, 8402>>>>, (* nvge; *)
      <<<<110, 118, 103, 116, 59>>, <<62, 8402>>>>, (* nvgt; *)
      <<<<110, 118, 105, 110, 102, 105, 110, 59>>, <<10718>>>>, (* nvinfin; *)
      <<<<110, 118, 108, 65, 114, 114, 59>>, <<10498>>>>, (* nvlArr; *)
      <<<<110, 118, 108, 101, 59>>, <<8804, 8402>>>>, (* nvle; *)
      <<<<110, 118, 108, 116, 59>>, <<60, 8402>>>>, (* nvlt; *)
      <<<<110, 118, 108, 116, 114, 105, 101, 59>>, <<8884, 8402>>>>, (* nvltrie; *)
      <<<<110, 118, 114, 65, 114, 114, 59>>, <<10499>>>>, (* nvrArr; *)
      <<<<110, 118, 114, 116, 114, 105, 101, 59>>, <<8885, 8402>>>>, (* nvrtrie; *)
      <<<<110, 118, 115, 105, 109, 59>>, <<8764, 8402>>>>, (* nvsim; *)
      <<<<110, 119, 65, 114, 114, 59>>, <<8662>>>>, (* nwArr; *)
      <<<<110, 119, 97, 114, 104, 107, 59>>, <<10531>>>>, (* nwarhk; *)
      <<<<110, 119, 97, 114, 114, 59>>, <<8598>>>>, (* nwarr; *)
      <<<<110, 119, 97, 114, 114, 111, 119, 59>>, <<8598>>>>, (* nwarrow; *)
      <<<<110, 119, 110, 101, 97, 114, 59>>, <<10535>>>>, (* nwnear; *)
      <<<<111, 83, 59>>, <<9416>>>>, (* oS; *)
      <<<<111, 97, 99, 117, 116, 101>>, <<243>>>>, (* oacute *)
      <<<<111, 97, 99, 117, 116, 101, 59>>, <<243>>>>, (* oacute; *)
      <<<<111, 97, 115, 116, 59>>, <<8859>>>>, (* oast; *)
      <<<<111, 99, 105, 114, 59>>, <<8858>>>>, (* ocir; *)
      <<<<111, 99, 105, 114, 99>>, <<244>>>>, (* ocirc *)
      <<<<111, 99, 105, 114, 99, 59>>, <<244>>>>, (* ocirc; *)
      <<<<111, 99, 121, 59>>, <<1086>>>>, (* ocy; *)
      <<<<111, 100, 97, 115, 104, 59>>, <<8861>>>>, (* odash; *)
      <<<<111, 100, 98, 108, 97, 99, 59>>, <<337>>>>, (* odblac; *)
      <<<<111, 100, 105, 118, 59>>, <<10808>>>>, (* odiv; *)
      <<<<111, 100, 111, 116, 59>>, <<8857>>>>, (* odot; *)
      <<<<111, 100, 115, 111, 108, 100, 59>>, <<10684>>>>, (* odsold; *)
      <<<<111, 101, 108, 105, 103, 59>>, <<339>>>>, (* oelig; *)
      <<<<111, 102, 99, 105, 114, 59>>, <<10687>>>>, (* ofcir; *)
      <<<<111, 102, 114, 59>>, <<120108>>>>, (* ofr; *)
      <<<<111, 103, 111, 110, 59>>, <<731>>>>, (* ogon; *)
      <<<<111, 103, 114, 97, 118, 101>>, <<242>>>>, (* ograve *)
      <<<<111, 103, 114, 97, 118, 101, 59>>, <<242>>>>, (* ograve; *)
      <<<<111, 103, 116, 59>>, <<10689>>>>, (* ogt; *)
      <<<<111, 104, 98, 97, 114, 59>>, <<10677>>>>, (* ohbar; *)
      <<<<111, 104, 109, 59>>, <<937>>>>, (* ohm; *)
      <<<<111, 105, 110, 116, 59>>, <<8750>>>>, (* oint; *)
      <<<<111, 108, 97, 114, 114, 59>>, <<8634>>>>, (* olarr; *)
      <<<<111, 108, 99, 105, 114, 59>>, <<10686>>>>, (* olcir; *)
      <<<<111, 108, 99, 114, 111, 115, 115, 59>>, <<10683>>>>, (* olcross; *)
      <<<<111, 108, 105, 110, 101, 59>>, <<8254>>>>, (* oline; *)
      <<<<111, 108, 116, 59>>, <<10688>>>>, (* olt; *)
      <<<<111, 109, 97, 99, 114, 59>>, <<333>>>>, (* omacr; *)
      <<<<111, 109, 101, 103, 97, 59>>, <<969>>>>, (* omega; *)
      <<<<111, 109, 105, 99, 114, 111, 110, 59>>, <<959>>>>, (* omicron; *)
      <<<<111, 109, 105, 100, 59>>, <<10678>>>>, (* omid; *)
      <<<<111, 109, 105, 110, 117, 115, 59>>, <<8854>>>>, (* ominus; *)
      <<<<111, 111, 112, 102, 59>>, <<120160>>>>, (* oopf; *)
      <<<<111, 112, 97, 114, 59>>, <<10679>>>>, (* opar; *)
      <<<<111, 112, 101, 114, 112, 59>>, <<10681>>>>, (* operp; *)
      <<<<111, 112, 108, 117, 115, 59>>, <<8853>>>>, (* oplus; *)
      <<<<111, 114, 59>>, <<8744>>>>, (* or; *)
      <<<<111, 114, 97, 114, 114, 59>>, <<8635>>>>, (* orarr; *)
      <<<<111, 114, 100, 59>>, <<10845>>>>, (* ord; *)
      <<<<111, 114, 100, 101, 114, 59>>, <<8500>>>>, (* order; *)
      <<<<111, 114, 100, 101, 114, 111, 102, 59>>, <<8500>>>>, (* orderof; *)
      <<<<111, 114, 100, 102>>, <<170>>>>, (* ordf *)
      <<<<111, 114, 100, 102, 59>>, <<170>>>>, (* ordf; *)
      <<<<111, 114, 100, 109>>, <<186>>>>, (* ordm *)
      <<<<111, 114, 100, 109, 59>>, <<186>>>>, (* ordm; *)
      <<<<111, 114, 105, 103, 111, 102, 59>>, <<8886>>>>, (* origof; *)
      <<<<111, 114, 111, 114, 59>>, <<10838>>>>, (* oror; *)
      <<<<111, 114, 115, 108, 111, 112, 101, 59>>, <<10839>>>>, (* orslope; *)
      <<<<111, 114, 118, 59>>, <<10843>>>>, (* orv; *)
      <<<<111, 115, 99, 114, 59>>, <<8500>>>>, (* oscr; *)
      <<<<111, 115, 108, 97, 115, 104>>, <<248>>>>, (* oslash *)
      <<<<111, 115, 108, 97, 115, 104, 59>>, <<248>>>>, (* oslash; *)
      <<<<111, 115, 111, 108, 59>>, <<8856>>>>, (* osol; *)
      <<<<111, 116, 105, 108, 100, 101>>, <<245>>>>, (* otilde *)
      <<<<111, 116, 105, 108, 100, 101, 59>>, <<245>>>>, (* otilde; *)
      <<<<111, 116, 105, 109, 101, 115, 59>>, <<8855>>>>, (* otimes; *)
      <<<<111, 116, 105, 109, 101, 115, 97, 115, 59>>, <<10806>>>>, (* otimesas; *)
      <<<<111, 117, 109, 108>>, <<246>>>>, (* ouml *)
      <<<<111, 117, 109, 108, 59>>, <<246>>>>, (* ouml; *)
      <<<<111, 118, 98, 97, 114, 59>>, <<9021>>>>, (* ovbar; *)
      <<<<112, 97, 114, 59>>, <<8741>>>>, (* par; *)
      <<<<112, 97, 114, 97>>, <<182>>>>, (* para *)
      <<<<112, 97, 114, 97, 59>>, <<182>>>>, (* para; *)
      <<<<112, 97, 114, 97, 108, 108, 101, 108, 59>>, <<8741>>>>, (* parallel; *)
      <<<<112, 97, 114, 115, 105, 109, 59>>, <<10995>>>>, (* parsim; *)
      <<<<112, 97, 114, 115, 108, 59>>, <<11005>>>>, (* parsl; *)
      <<<<112, 97, 114, 116, 59>>, <<8706>>>>, (* part; *)
      <<<<112, 99, 121, 59>>, <<1087>>>>, (* pcy; *)
      <<<<112, 101, 114, 99, 110, 116, 59>>, <<37>>>>, (* percnt; *)
      <<<<112, 101, 114, 105, 111, 100, 59>>, <<46>>>>, (* period; *)
      <<<<112, 101, 114, 109, 105, 108, 59>>, <<8240>>>>, (* permil; *)
      <<<<112, 101, 114, 112, 59>>, <<8869>>>>, (* perp; *)
      <<<<112, 101, 114, 116, 101, 110, 107, 59>>, <<8241>>>>, (* pertenk; *)
      <<<<112, 102, 114, 59>>, <<120109>>>>, (* pfr; *)
      <<<<112, 104, 105, 59>>, <<966>>>>, (* phi; *)
      <<<<112, 104, 105, 118, 59>>, <<981>>>>, (* phiv; *)
      <<<<112, 104, 109, 109, 97, 116, 59>>, <<8499>>>>, (* phmmat; *)
      <<<<112, 104, 111, 110, 101, 59>>, <<9742>>>>, (* phone; *)
      <<<<112, 105, 59>>, <<960>>>>, (* pi; *)
      <<<<112, 105, 116, 99, 104, 102, 111, 114, 107, 59>>, <<8916>>>>, (* pitchfork; *)
      <<<<112, 105, 118, 59>>, <<982>>>>, (* piv; *)
      <<<<112, 108, 97, 110, 99, 107, 59>>, <<8463>>>>, (* planck; *)
      <<<<112, 108, 97, 110, 99, 107, 104, 59>>, <<8462>>>>, (* planckh; *)
      <<<<112, 108, 97, 110, 107, 118, 59>>, <<8463>>>>, (* plankv; *)
      <<<<112, 108, 117, 115, 59>>, <<43>>>>, (* plus; *)
      <<<<112, 108, 117, 115, 97, 99, 105, 114, 59>>, <<10787>>>>, (* plusacir; *)
      <<<<112, 108, 117, 115, 98, 59>>, <<8862>>>>, (* plusb; *)
      <<<<112, 108, 117, 115, 99, 105, 114, 59>>, <<10786>>>>, (* pluscir; *)
      <<<<112, 108, 117, 115, 100, 111, 59>>, <<8724>>>>, (* plusdo; *)
      <<<<112, 108, 117, 115, 100, 117, 59>>, <<10789>>>>, (* plusdu; *)
      <<<<112, 108, 117, 115, 101, 59>>, <<10866>>>>, (* pluse; *)
      <<<<112, 108, 117, 115, 109, 110>>, <<177>>>>, (* plusmn *)
      <<<<112, 108, 117, 115, 109, 110, 59>>, <<177>>>>, (* plusmn; *)
      <<<<112, 108, 117, 115, 115, 105, 109, 59>>, <<10790>>>>, (* plussim; *)
      <<<<112, 108, 117, 115, 116, 119, 111, 59>>, <<10791>>>>, (* plustwo; *)
      <<<<112, 109, 59>>, <<177>>>>, (* pm; *)
      <<<<112, 111, 105, 110, 116, 105, 110, 116, 59>>, <<10773>>>>, (* pointint; *)
      <<<<112, 111, 112, 102, 59>>, <<120161>>>>, (* popf; *)
      <<<<112, 111, 117, 110, 100>>, <<163>>>>, (* pound *)
      <<<<112, 111, 117, 110, 100, 59>>, <<163>>>>, (* pound; *)
      <<<<112, 114, 59>>, <<8826>>>>, (* pr; *)
      <<<<112, 114, 69, 59>>, <<10931>>>>, (* prE; *)
      <<<<112, 114, 97, 112, 59>>, <<10935>>>>, (* prap; *)
      <<<<112, 114, 99, 117, 101, 59>>, <<8828>>>>, (* prcue; *)
      <<<<112, 114, 101, 59>>, <<10927>>>>, (* pre; *)
      <<<<112, 114, 101, 99, 59>>, <<8826>>>>, (* prec; *)
      <<<<112, 114, 101, 99, 97, 112, 112, 114, 111, 120, 59>>, <<10935>>>>, (* precapprox; *)
      <<<<112, 114, 101, 99, 99, 117, 114, 108, 121, 101, 113, 59>>, <<8828>>>>, (* preccurlyeq; *)
      <<<<112, 114, 101, 99, 101, 113, 59>>, <<10927>>>>, (* preceq; *)
      <<<<112, 114, 101, 99, 110, 97, 112, 112, 114, 111, 120, 59>>, <<10937>>>>, (* precnapprox; *)
      <<<<112, 114, 101, 99, 110, 101, 113, 113, 59>>, <<10933>>>>, (* precneqq; *)
      <<<<112, 114, 101, 99, 110, 115, 105, 109, 59>>, <<8936>>>>, (* precnsim; *)
      <<<<112, 114, 101, 99, 115, 105, 109, 59>>, <<8830>>>>, (* precsim; *)
      <<<<112, 114, 105, 109, 101, 59>>, <<8242>>>>, (* prime; *)
      <<<<112, 114, 105, 109, 101, 115, 59>>, <<8473>>>>, (* primes; *)
      <<<<112, 114, 110, 69, 59>>, <<10933>>>>, (* prnE; *)
      <<<<112, 114, 110, 97, 112, 59>>, <<10937>>>>, (* prnap; *)
      <<<<112, 114, 110, 115, 105, 109, 59>>, <<8936>>>>, (* prnsim; *)
      <<<<112, 114, 111, 100, 59>>, <<8719>>>>, (* prod; *)
      <<<<112, 114, 111, 102, 97, 108, 97, 114, 59>>, <<9006>>>>, (* profalar; *)
      <<<<112, 114, 111, 102, 108, 105, 110, 101, 59>>, <<8978>>>>, (* profline; *)
      <<<<112, 114, 111, 102, 115, 117, 114, 102, 59>>, <<8979>>>>, (* profsurf; *)
      <<<<112, 114, 111, 112, 59>>, <<8733>>>>, (* prop; *)
      <<<<112, 114, 111, 112, 116, 111, 59>>, <<8733>>>>, (* propto; *)
      <<<<112, 114, 115, 105, 109, 59>>, <<8830>>>>, (* prsim; *)
      <<<<112, 114, 117, 114, 101, 108, 59>>, <<8880>>>>, (* prurel; *)
      <<<<112, 115, 99, 114, 59>>, <<120005>>>>, (* pscr; *)
      <<<<112, 115, 105, 59>>, <<968>>>>, (* psi; *)
      <<<<112, 117, 110, 99, 115, 112, 59>>, <<8200>>>>, (* puncsp; *)
      <<<<113, 102, 114, 59>>, <<120110>>>>, (* qfr; *)
      <<<<113, 105, 110, 116, 59>>, <<10764>>>>, (* qint; *)
      <<<<113, 111, 112, 102, 59>>, <<120162>>>>, (* qopf; *)
      <<<<113, 112, 114, 105, 109, 101, 59>>, <<8279>>>>, (* qprime; *)
      <<<<113, 115, 99, 114, 59>>, <<120006>>>>, (* qscr; *)
      <<<<113, 117, 97, 116, 101, 114, 110, 105, 111, 110, 115, 59>>, <<8461>>>>, (* quaternions; *)
      <<<<113, 117, 97, 116, 105, 110, 116, 59>>, <<10774>>>>, (* quatint; *)
      <<<<113, 117, 101, 115, 116, 59>>, <<63>>>>, (* quest; *)
      <<<<113, 117, 101, 115, 116, 101, 113, 59>>, <<8799>>>>, (* questeq; *)
      <<<<113, 117, 111, 116>>, <<34>>>>, (* quot *)
      <<<<113, 117, 111, 116, 59>>, <<34>>>>, (* quot; *)
      <<<<114, 65, 97, 114, 114, 59>>, <<8667>>>>, (* rAarr; *)
      <<<<114, 65, 114, 114, 59>>, <<8658>>>>, (* rArr; *)
      <<<<114, 65, 116, 97, 105, 108, 59>>, <<10524>>>>, (* rAtail; *)
      <<<<114, 66, 97, 114, 114, 59>>, <<10511>>>>, (* rBarr; *)
      <<<<114, 72, 97, 114, 59>>, <<10596>>>>, (* rHar; *)
      <<<<114, 97, 99, 101, 59>>, <<8765, 817>>>>, (* race; *)
      <<<<114, 97, 99, 117, 116, 101, 59>>, <<341>>>>, (* racute; *)
      <<<<114, 97, 100, 105, 99, 59>>, <<8730>>>>, (* radic; *)
      <<<<114, 97, 101, 109, 112, 116, 121, 118, 59>>, <<10675>>>>, (* raemptyv; *)
      <<<<114, 97, 110, 103, 59>>, <<10217>>>>, (* rang; *)
      <<<<114, 97, 110, 103, 100, 59>>, <<10642>>>>, (* rangd; *)
      <<<<114, 97, 110, 103, 101, 59>>, <<10661>>>>, (* range; *)
      <<<<114, 97, 110, 103, 108, 101, 59>>, <<10217>>>>, (* rangle; *)
      <<<<114, 97, 113, 117, 111>>, <<187>>>>, (* raquo *)
      <<<<114, 97, 113, 117, 111, 59>>, <<187>>>>, (* raquo; *)
      <<<<114, 97, 114, 114, 59>>, <<8594>>>>, (* rarr; *)
      <<<<114, 97, 114, 114, 97, 112, 59>>, <<10613>>>>, (* rarrap; *)
      <<<<114, 97, 114, 114, 98, 59>>, <<8677>>>>, (* rarrb; *)
      <<<<114, 97, 114, 114, 98, 102, 115, 59>>, <<10528>>>>, (* rarrbfs; *)
      <<<<114, 97, 114, 114, 99, 59>>, <<10547>>>>, (* rarrc; *)
      <<<<114, 97, 114, 114, 102, 115, 59>>, <<10526>>>>, (* rarrfs; *)
      <<<<114, 97, 114, 114, 104, 107, 59>>, <<8618>>>>, (* rarrhk; *)
      <<<<114, 97, 114, 114, 108, 112, 59>>, <<8620>>>>, (* rarrlp; *)
      <<<<114, 97, 114, 114, 112, 108, 59>>, <<10565>>>>, (* rarrpl; *)
      <<<<114, 97, 114, 114, 115, 105, 109, 59>>, <<10612>>>>, (* rarrsim; *)
      <<<<114, 97, 114, 114, 116, 108, 59>>, <<8611>>>>, (* rarrtl; *)
      <<<<114, 97, 114, 114, 119, 59>>, <<8605>>>>, (* rarrw; *)
      <<<<114, 97, 116, 97, 105, 108, 59>>, <<10522>>>>, (* ratail; *)
      <<<<114, 97, 116, 105, 111, 59>>, <<8758>>>>, (* ratio; *)
      <<<<114, 97, 116, 105, 111, 110, 97, 108, 115, 59>>, <<8474>>>>, (* rationals; *)
      <<<<114, 98, 97, 114, 114, 59>>, <<10509>>>>, (* rbarr; *)
      <<<<114, 98, 98, 114, 107, 59>>, <<10099>>>>, (* rbbrk; *)
      <<<<114, 98, 114, 97, 99, 101, 59>>, <<125>>>>, (* rbrace; *)
      <<<<114, 98, 114, 97, 99, 107, 59>>, <<93>>>>, (* rbrack; *)
      <<<<114, 98, 114, 107, 101, 59>>, <<10636>>>>, (* rbrke; *)
      <<<<114, 98, 114, 107, 115, 108, 100, 59>>, <<10638>>>>, (* rbrksld; *)
      <<<<114, 98, 114, 107, 115, 108, 117, 59>>, <<10640>>>>, (* rbrkslu; *)
      <<<<114, 99, 97, 114, 111, 110, 59>>, <<345>>>>, (* rcaron; *)
      <<<<114, 99, 101, 100, 105, 108, 59>>, <<343>>>>, (* rcedil; *)
      <<<<114, 99, 101, 105, 108, 59>>, <<8969>>>>, (* rceil; *)
      <<<<114, 99, 117, 98, 59>>, <<125>>>>, (* rcub; *)
      <<<<114, 99, 121, 59>>, <<1088>>>>, (* rcy; *)
      <<<<114, 100, 99, 97, 59>>, <<10551>>>>, (* rdca; *)
      <<<<114, 100, 108, 100, 104, 97, 114, 59>>, <<10601>>>>, (* rdldhar; *)
      <<<<114, 100, 113, 117, 111, 59>>, <<8221>>>>, (* rdquo; *)
      <<<<114, 100, 113, 117, 111, 114, 59>>, <<8221>>>>, (* rdquor; *)
      <<<<114, 100, 115, 104, 59>>, <<8627>>>>, (* rdsh; *)
      <<<<114, 101, 97, 108, 59>>, <<8476>>>>, (* real; *)
      <<<<114, 101, 97, 108, 105, 110, 101, 59>>, <<8475>>>>, (* realine; *)
      <<<<114, 101, 97, 108, 112, 97, 114, 116, 59>>, <<8476>>>>, (* realpart; *)
      <<<<114, 101, 97, 108, 115, 59>>, <<8477>>>>, (* reals; *)
      <<<<114, 101, 99, 116, 59>>, <<9645>>>>, (* rect; *)
      <<<<114, 101, 103>>, <<174>>>>, (* reg *)
      <<<<114, 101, 103, 59>>, <<174>>>>, (* reg; *)
      <<<<114, 102, 105, 115, 104, 116, 59>>, <<10621>>>>, (* rfisht; *)
      <<<<114, 102, 108, 111, 111, 114, 59>>, <<8971>>>>, (* rfloor; *)
      <<<<114, 102, 114, 59>>, <<120111>>>>, (* rfr; *)
      <<<<114, 104, 97, 114, 100, 59>>, <<8641>>>>, (* rhard; *)
      <<<<114, 104, 97, 114, 117, 59>>, <<8640>>>>, (* rharu; *)
      <<<<114, 104, 97, 114, 117, 108, 59>>, <<10604>>>>, (* rharul; *)
      <<<<114, 104, 111, 59>>, <<961>>>>, (* rho; *)
      <<<<114, 104, 111, 118, 59>>, <<1009>>>>, (* rhov; *)
      <<<<114, 105, 103, 104, 116, 97, 114, 114, 111, 119, 59>>, <<8594>>>>, (* rightarrow; *)
      <<<<114, 105, 103, 104, 116, 97, 114, 114, 111, 119, 116, 97, 105, 108, 59>>, <<8611>>>>, (* rightarrowtail; *)
      <<<<114, 105, 103, 104, 116, 104, 97, 114, 112, 111, 111, 110, 100, 111, 119, 110, 59>>, <<8641>>>>, (* rightharpoondown; *)
      <<<<114, 105, 103, 104, 116, 104, 97, 114, 112, 111, 111, 110, 117, 112, 59>>, <<8640>>>>, (* rightharpoonup; *)
      <<<<114, 105, 103, 104, 116, 108, 101, 102, 116, 97, 114, 114, 111, 119, 115, 59>>, <<8644>>>>, (* rightleftarrows; *)
      <<<<114, 105, 103, 104, 116, 108, 101, 102, 116, 104, 97, 114, 112, 111, 111, 110, 115, 59>>, <<8652>>>>, (* rightleftharpoons; *)
      <<<<114, 105, 103, 104, 116, 114, 105, 103, 104, 116, 97, 114, 114, 111, 119, 115, 59>>, <<8649>>>>, (* rightrightarrows; *)
      <<<<114, 105, 103, 104, 116, 115, 113, 117, 105, 103, 97, 114, 114, 111, 119, 59>>, <<8605>>>>, (* rightsquigarrow; *)
      <<<<114, 105, 103, 104, 116, 116, 104, 114, 101, 101, 116, 105, 109, 101, 115, 59>>, <<8908>>>>, (* rightthreetimes; *)
      <<<<114, 105, 110, 103, 59>>, <<730>>>>, (* ring; *)
      <<<<114, 105, 115, 105, 110, 103, 100, 111, 116, 115, 101, 113, 59>>, <<8787>>>>, (* risingdotseq; *)
      <<<<114, 108, 97, 114, 114, 59>>, <<8644>>>>, (* rlarr; *)
      <<<<114, 108, 104, 97, 114, 59>>, <<8652>>>>, (* rlhar; *)
      <<<<114, 108, 109, 59>>, <<8207>>>>, (* rlm; *)
      <<<<114, 109, 111, 117, 115, 116, 59>>, <<9137>>>>, (* rmoust; *)
      <<<<114, 109, 111, 117, 115, 116, 97, 99, 104, 101, 59>>, <<9137>>>>, (* rmoustache; *)
      <<<<114, 110, 109, 105, 100, 59>>, <<10990>>>>, (* rnmid; *)
      <<<<114, 111, 97, 110, 103, 59>>, <<10221>>>>, (* roang; *)
      <<<<114, 111, 97, 114, 114, 59>>, <<8702>>>>, (* roarr; *)
      <<<<114, 111, 98, 114, 107, 59>>, <<10215>>>>, (* robrk; *)
      <<<<114, 111, 112, 97, 114, 59>>, <<10630>>>>, (* ropar; *)
      <<<<114, 111, 112, 102, 59>>, <<120163>>>>, (* ropf; *)
      <<<<114, 111, 112, 108, 117, 115, 59>>, <<10798>>>>, (* roplus; *)
      <<<<114, 111, 116, 105, 109, 101, 115, 59>>, <<10805>>>>, (* rotimes; *)
      <<<<114, 112, 97, 114, 59>>, <<41>>>>, (* rpar; *)
      <<<<114, 112, 97, 114, 103, 116, 59>>, <<10644>>>>, (* rpargt; *)
      <<<<114, 112, 112, 111, 108, 105, 110, 116, 59>>, <<10770>>>>, (* rppolint; *)
      <<<<114, 114, 97, 114, 114, 59>>, <<8649>>>>, (* rrarr; *)
      <<<<114, 115, 97, 113, 117, 111, 59>>, <<8250>>>>, (* rsaquo; *)
      <<<<114, 115, 99, 114, 59>>, <<120007>>>>, (* rscr; *)
      <<<<114, 115, 104, 59>>, <<8625>>>>, (* rsh; *)
      <<<<114, 115, 113, 98, 59>>, <<93>>>>, (* rsqb; *)
      <<<<114, 115, 113, 117, 111, 59>>, <<8217>>>>, (* rsquo; *)
      <<<<114, 115, 113, 117, 111, 114, 59>>, <<8217>>>>, (* rsquor; *)
      <<<<114, 116, 104, 114, 101, 101, 59>>, <<8908>>>>, (* rthree; *)
      <<<<114, 116, 105, 109, 101, 115, 59>>, <<8906>>>>, (* rtimes; *)
      <<<<114, 116, 114, 105, 59>>, <<9657>>>>, (* rtri; *)
      <<<<114, 116, 114, 105, 101, 59>>, <<8885>>>>, (* rtrie; *)
      <<<<114, 116, 114, 105, 102, 59>>, <<9656>>>>, (* rtrif; *)
      <<<<114, 116, 114, 105, 108, 116, 114, 105, 59>>, <<10702>>>>, (* rtriltri; *)
      <<<<114, 117, 108, 117, 104, 97, 114, 59>>, <<10600>>>>, (* ruluhar; *)
      <<<<114, 120, 59>>, <<8478>>>>, (* rx; *)
      <<<<115, 97, 99, 117, 116, 101, 59>>, <<347>>>>, (* sacute; *)
      <<<<115, 98, 113, 117, 111, 59>>, <<8218>>>>, (* sbquo; *)
      <<<<115, 99, 59>>, <<8827>>>>, (* sc; *)
      <<<<115, 99, 69, 59>>, <<10932>>>>, (* scE; *)
      <<<<115, 99, 97, 112, 59>>, <<10936>>>>, (* scap; *)
      <<<<115, 99, 97, 114, 111, 110, 59>>, <<353>>>>, (* scaron; *)
      <<<<115, 99, 99, 117, 101, 59>>, <<8829>>>>, (* sccue; *)
      <<<<115, 99, 101, 59>>, <<10928>>>>, (* sce; *)
      <<<<115, 99, 101, 100, 105, 108, 59>>, <<351>>>>, (* scedil; *)
      <<<<115, 99, 105, 114, 99, 59>>, <<349>>>>, (* scirc; *)
      <<<<115, 99, 110, 69, 59>>, <<10934>>>>, (* scnE; *)
      <<<<115, 99, 110, 97, 112, 59>>, <<10938>>>>, (* scnap; *)
      <<<<115, 99, 110, 115, 105, 109, 59>>, <<8937>>>>, (* scnsim; *)
      <<<<115, 99, 112, 111, 108, 105, 110, 116, 59>>, <<10771>>>>, (* scpolint; *)
      <<<<115, 99, 115, 105, 109, 59>>, <<8831>>>>, (* scsim; *)
      <<<<115, 99, 121, 59>>, <<1089>>>>, (* scy; *)
      <<<<115, 100, 111, 116, 59>>, <<8901>>>>, (* sdot; *)
      <<<<115, 100, 111, 116, 98, 59>>, <<8865>>>>, (* sdotb; *)
      <<<<115, 100, 111, 116, 101, 59>>, <<10854>>>>, (* sdote; *)
      <<<<115, 101, 65, 114, 114, 59>>, <<8664>>>>, (* seArr; *)
      <<<<115, 101, 97, 114, 104, 107, 59>>, <<10533>>>>, (* searhk; *)
      <<<<115, 101, 97, 114, 114, 59>>, <<8600>>>>, (* searr; *)
      <<<<115, 101, 97, 114, 114, 111, 119, 59>>, <<8600>>>>, (* searrow; *)
      <<<<115, 101, 99, 116>>, <<167>>>>, (* sect *)
      <<<<115, 101, 99, 116, 59>>, <<167>>>>, (* sect; *)
      <<<<115, 101, 109, 105, 59>>, <<59>>>>, (* semi; *)
      <<<<115, 101, 115, 119, 97, 114, 59>>, <<10537>>>>, (* seswar; *)
      <<<<115, 101, 116, 109, 105, 110, 117, 115, 59>>, <<8726>>>>, (* setminus; *)
      <<<<115, 101, 116, 109, 110, 59>>, <<8726>>>>, (* setmn; *)
      <<<<115, 101, 120, 116, 59>>, <<10038>>>>, (* sext; *)
      <<<<115, 102, 114, 59>>, <<120112>>>>, (* sfr; *)
      <<<<115, 102, 114, 111, 119, 110, 59>>, <<8994>>>>, (* sfrown; *)
      <<<<115, 104, 97, 114, 112, 59>>, <<9839>>>>, (* sharp; *)
      <<<<115, 104, 99, 104, 99, 121, 59>>, <<1097>>>>, (* shchcy; *)
      <<<<115, 104, 99, 121, 59>>, <<1096>>>>, (* shcy; *)
      <<<<115, 104, 111, 114, 116, 109, 105, 100, 59>>, <<8739>>>>, (* shortmid; *)
      <<<<115, 104, 111, 114, 116, 112, 97, 114, 97, 108, 108, 101, 108, 59>>, <<8741>>>>, (* shortparallel; *)
      <<<<115, 104, 121>>, <<173>>>>, (* shy *)
      <<<<115, 104, 121, 59>>, <<173>>>>, (* shy; *)
      <<<<115, 105, 103, 109, 97, 59>>, <<963>>>>, (* sigma; *)
      <<<<115, 105, 103, 109, 97, 102, 59>>, <<962>>>>, (* sigmaf; *)
      <<<<115, 105, 103, 109, 97, 118, 59>>, <<962>>>>, (* sigmav; *)
      <<<<115, 105, 109, 59>>, <<8764>>>>, (* sim; *)
      <<<<115, 105, 109, 100, 111, 116, 59>>, <<10858>>>>, (* simdot; *)
      <<<<115, 105, 109, 101, 59>>, <<8771>>>>, (* sime; *)
      <<<<115, 105, 109, 101, 113, 59>>, <<8771>>>>, (* simeq; *)
      <<<<115, 105, 109, 103, 59>>, <<10910>>>>, (* simg; *)
      <<<<115, 105, 109, 103, 69, 59>>, <<10912>>>>, (* simgE; *)
      <<<<115, 105, 109, 108, 59>>, <<10909>>>>, (* siml; *)
      <<<<115, 105, 109, 108, 69, 59>>, <<10911>>>>, (* simlE; *)
      <<<<115, 105, 109, 110, 101, 59>>, <<8774>>>>, (* simne; *)
      <<<<115, 105, 109, 112, 108, 117, 115, 59>>, <<10788>>>>, (* simplus; *)
      <<<<115, 105, 109, 114, 97, 114, 114, 59>>, <<10610>>>>, (* simrarr; *)
      <<<<115, 108, 97, 114, 114, 59>>, <<8592>>>>, (* slarr; *)
      <<<<115, 109, 97, 108, 108, 115, 101, 116, 109, 105, 110, 117, 115, 59>>, <<8726>>>>, (* smallsetminus; *)
      <<<<115, 109, 97, 115, 104, 112, 59>>, <<10803>>>>, (* smashp; *)
      <<<<115, 109, 101, 112, 97, 114, 115, 108, 59>>, <<10724>>>>, (* smeparsl; *)
      <<<<115, 109, 105, 100, 59>>, <<8739>>>>, (* smid; *)
      <<<<115, 109, 105, 108, 101, 59>>, <<8995>>>>, (* smile; *)
      <<<<115, 109, 116, 59>>, <<10922>>>>, (* smt; *)
      <<<<115, 109, 116, 101, 59>>, <<10924>>>>, (* smte; *)
      <<<<115, 109, 116, 101, 115, 59>>, <<10924, 65024>>>>, (* smtes; *)
      <<<<115, 111, 102, 116, 99, 121, 59>>, <<1100>>>>, (* softcy; *)
      <<<<115, 111, 108, 59>>, <<47>>>>, (* sol; *)
      <<<<115, 111, 108, 98, 59>>, <<10692>>>>, (* solb; *)
      <<<<115, 111, 108, 98, 97, 114, 59>>, <<9023>>>>, (* solbar; *)
      <<<<115, 111, 112, 102, 59>>, <<120164>>>>, (* sopf; *)
      <<<<115, 112, 97, 100, 101, 115, 59>>, <<9824>>>>, (* spades; *)
      <<<<115, 112, 97, 100, 101, 115, 117, 105, 116, 59>>, <<9824>>>>, (* spadesuit; *)
      <<<<115, 112, 97, 114, 59>>, <<8741>>>>, (* spar; *)
      <<<<115, 113, 99, 97, 112, 59>>, <<8851>>>>, (* sqcap; *)
      <<<<115, 113, 99, 97, 112, 115, 59>>, <<8851, 65024>>>>, (* sqcaps; *)
      <<<<115, 113, 99, 117, 112, 59>>, <<8852>>>>, (* sqcup; *)
      <<<<115, 113, 99, 117, 112, 115, 59>>, <<8852, 65024>>>>, (* sqcups; *)
      <<<<115, 113, 115, 117, 98, 59>>, <<8847>>>>, (* sqsub; *)
      <<<<115, 113, 115, 117, 98, 101, 59>>, <<8849>>>>, (* sqsube; *)
      <<<<115, 113, 115, 117, 98, 115, 101, 116, 59>>, <<8847>>>>, (* sqsubset; *)
      <<<<115, 113, 115, 117, 98, 115, 101, 116, 101, 113, 59>>, <<8849>>>>, (* sqsubseteq; *)
      <<<<115, 113, 115, 117, 112, 59>>, <<8848>>>>, (* sqsup; *)
      <<<<115, 113, 115, 117, 112, 101, 59>>, <<8850>>>>, (* sqsupe; *)
      <<<<115, 113, 115, 117, 112, 115, 101, 116, 59>>, <<8848>>>>, (* sqsupset; *)
      <<<<115, 113, 115, 117, 112, 115, 101, 116, 101, 113, 59>>, <<8850>>>>, (* sqsupseteq; *)
      <<<<115, 113, 117, 59>>, <<9633>>>>, (* squ; *)
      <<<<115, 113, 117, 97, 114, 101, 59>>, <<9633>>>>, (* square; *)
      <<<<115, 113, 117, 97, 114, 102, 59>>, <<9642>>>>, (* squarf; *)
      <<<<115, 113, 117, 102, 59>>, <<9642>>>>, (* squf; *)
      <<<<115, 114, 97, 114, 114, 59>>, <<8594>>>>, (* srarr; *)
      <<<<115, 115, 99, 114, 59>>, <<120008>>>>, (* sscr; *)
      <<<<115, 115, 101, 116, 109, 110, 59>>, <<8726>>>>, (* ssetmn; *)
      <<<<115, 115, 109, 105, 108, 101, 59>>, <<8995>>>>, (* ssmile; *)
      <<<<115, 115, 116, 97, 114, 102, 59>>, <<8902>>>>, (* sstarf; *)
      <<<<115, 116, 97, 114, 59>>, <<9734>>>>, (* star; *)
      <<<<115, 116, 97, 114, 102, 59>>, <<9733>>>>, (* starf; *)
      <<<<115, 116, 114, 97, 105, 103, 104, 116, 101, 112, 115, 105, 108, 111, 110, 59>>, <<1013>>>>, (* straightepsilon; *)
      <<<<115, 116, 114, 97, 105, 103, 104, 116, 112, 104, 105, 59>>, <<981>>>>, (* straightphi; *)
      <<<<115, 116, 114, 110, 115, 59>>, <<175>>>>, (* strns; *)
      <<<<115, 117, 98, 59>>, <<8834>>>>, (* sub; *)
      <<<<115, 117, 98, 69, 59>>, <<10949>>>>, (* subE; *)
      <<<<115, 117, 98, 100, 111, 116, 59>>, <<10941>>>>, (* subdot; *)
      <<<<115, 117, 98, 101, 59>>, <<8838>>>>, (* sube; *)
      <<<<115, 117, 98, 101, 100, 111, 116, 59>>, <<10947>>>>, (* subedot; *)
      <<<<115, 117, 98, 109, 117, 108, 116, 59>>, <<10945>>>>, (* submult; *)
      <<<<115, 117, 98, 110, 69, 59>>, <<10955>>>>, (* subnE; *)
      <<<<115, 117, 98, 110, 101, 59>>, <<8842>>>>, (* subne; *)
      <<<<115, 117, 98, 112, 108, 117, 115, 59>>, <<10943>>>>, (* subplus; *)
      <<<<115, 117, 98, 114, 97, 114, 114, 59>>, <<10617>>>>, (* subrarr; *)
      <<<<115, 117, 98, 115, 101, 116, 59>>, <<8834>>>>, (* subset; *)
      <<<<115, 117, 98, 115, 101, 116, 101, 113, 59>>, <<8838>>>>, (* subseteq; *)
      <<<<115, 117, 98, 115, 101, 116, 101, 113, 113, 59>>, <<10949>>>>, (* subseteqq; *)
      <<<<115, 117, 98, 115, 101, 116, 110, 101, 113, 59>>, <<8842>>>>, (* subsetneq; *)
      <<<<115, 117, 98, 115, 101, 116, 110, 101, 113, 113, 59>>, <<10955>>>>, (* subsetneqq; *)
      <<<<115, 117, 98, 115, 105, 109, 59>>, <<10951>>>>, (* subsim; *)
      <<<<115, 117, 98, 115, 117, 98, 59>>, <<10965>>>>, (* subsub; *)
      <<<<115, 117, 98, 115, 117, 112, 59>>, <<10963>>>>, (* subsup; *)
      <<<<115, 117, 99, 99, 59>>, <<8827>>>>, (* succ; *)
      <<<<115, 117, 99, 99, 97, 112, 112, 114, 111, 120, 59>>, <<10936>>>>, (* succapprox; *)
      <<<<115, 117, 99, 99, 99, 117, 114, 108, 121, 101, 113, 59>>, <<8829>>>>, (* succcurlyeq; *)
      <<<<115, 117, 99, 99, 101, 113, 59>>, <<10928>>>>, (* succeq; *)
      <<<<115, 117, 99, 99, 110, 97, 112, 112, 114, 111, 120, 59>>, <<10938>>>>, (* succnapprox; *)
      <<<<115, 117, 99, 99, 110, 101, 113, 113, 59>>, <<10934>>>>, (* succneqq; *)
      <<<<115, 117, 99, 99, 110, 115, 105, 109, 59>>, <<8937>>>>, (* succnsim; *)
      <<<<115, 117, 99, 99, 115, 105, 109, 59>>, <<8831>>>>, (* succsim; *)
      <<<<115, 117, 109, 59>>, <<8721>>>>, (* sum; *)
      <<<<115, 117, 110, 103, 59>>, <<9834>>>>, (* sung; *)
      <<<<115, 117, 112, 49>>, <<185>>>>, (* sup1 *)
      <<<<115, 117, 112, 49, 59>>, <<185>>>>, (* sup1; *)
      <<<<115, 117, 112, 50>>, <<178>>>>, (* sup2 *)
      <<<<115, 117, 112, 50, 59>>, <<178>>>>, (* sup2; *)
      <<<<115, 117, 112, 51>>, <<179>>>>, (* sup3 *)
      <<<<115, 117, 112, 51, 59>>, <<179>>>>, (* sup3; *)
      <<<<115, 117, 112, 59>>, <<8835>>>>, (* sup; *)
      <<<<115, 117, 112, 69, 59>>, <<10950>>>>, (* supE; *)
      <<<<115, 117, 112, 100, 111, 116, 59>>, <<10942>>>>, (* supdot; *)
      <<<<115, 117, 112, 100, 115, 117, 98, 59>>, <<10968>>>>, (* supdsub; *)
      <<<<115, 117, 112, 101, 59>>, <<8839>>>>, (* supe; *)
      <<<<115, 117, 112, 101, 100, 111, 116, 59>>, <<10948>>>>, (* supedot; *)
      <<<<115, 117, 112, 104, 115, 111, 108, 59>>, <<10185>>>>, (* suphsol; *)
      <<<<115, 117, 112, 104, 115, 117, 98, 59>>, <<10967>>>>, (* suphsub; *)
      <<<<115, 117, 112, 108, 97, 114, 114, 59>>, <<10619>>>>, (* suplarr; *)
      <<<<115, 117, 112, 109, 117, 108, 116, 59>>, <<10946>>>>, (* supmult; *)
      <<<<115, 117, 112, 110, 69, 59>>, <<10956>>>>, (* supnE; *)
      <<<<115, 117, 112, 110, 101, 59>>, <<8843>>>>, (* supne; *)
      <<<<115, 117, 112, 112, 108, 117, 115, 59>>, <<10944>>>>, (* supplus; *)
      <<<<115, 117, 112, 115, 101, 116, 59>>, <<8835>>>>, (* supset; *)
      <<<<115, 117, 112, 115, 101, 116, 101, 113, 59>>, <<8839>>>>, (* supseteq; *)
      <<<<115, 117, 112, 115, 101, 116, 101, 113, 113, 59>>, <<10950>>>>, (* supseteqq; *)
      <<<<115, 117, 112, 115, 101, 116, 110, 101, 113, 59>>, <<8843>>>>, (* supsetneq; *)
      <<<<115, 117, 112, 115, 101, 116, 110, 101, 113, 113, 59>>, <<10956>>>>, (* supsetneqq; *)
      <<<<115, 117, 112, 115, 105, 109, 59>>, <<10952>>>>, (* supsim; *)
      <<<<115, 117, 112, 115, 117, 98, 59>>, <<10964>>>>, (* supsub; *)
      <<<<115, 117, 112, 115, 117, 112, 59>>, <<10966>>>>, (* supsup; *)
      <<<<115, 119, 65, 114, 114, 59>>, <<8665>>>>, (* swArr; *)
      <<<<115, 119, 97, 114, 104, 107, 59>>, <<10534>>>>, (* swarhk; *)
      <<<<115, 119, 97, 114, 114, 59>>, <<8601>>>>, (* swarr; *)
      <<<<115, 119, 97, 114, 114, 111, 119, 59>>, <<8601>>>>, (* swarrow; *)
      <<<<115, 119, 110, 119, 97, 114, 59>>, <<10538>>>>, (* swnwar; *)
      <<<<115, 122, 108, 105, 103>>, <<223>>>>, (* szlig *)
      <<<<115, 122, 108, 105, 103, 59>>, <<223>>>>, (* szlig; *)
      <<<<116, 97, 114, 103, 101, 116, 59>>, <<8982>>>>, (* target; *)
      <<<<116, 97, 117, 59>>, <<964>>>>, (* tau; *)
      <<<<116, 98, 114, 107, 59>>, <<9140>>>>, (* tbrk; *)
      <<<<116, 99, 97, 114, 111, 110, 59>>, <<357>>>>, (* tcaron; *)
      <<<<116, 99, 101, 100, 105, 108, 59>>, <<355>>>>, (* tcedil; *)
      <<<<116, 99, 121, 59>>, <<1090>>>>, (* tcy; *)
      <<<<116, 100, 111, 116, 59>>, <<8411>>>>, (* tdot; *)
      <<<<116, 101, 108, 114, 101, 99, 59>>, <<8981>>>>, (* telrec; *)
      <<<<116, 102, 114, 59>>, <<120113>>>>, (* tfr; *)
      <<<<116, 104, 101, 114, 101, 52, 59>>, <<8756>>>>, (* there4; *)
      <<<<116, 104, 101, 114, 101, 102, 111, 114, 101, 59>>, <<8756>>>>, (* therefore; *)
      <<<<116, 104, 101, 116, 97, 59>>, <<952>>>>, (* theta; *)
      <<<<116, 104, 101, 116, 97, 115, 121, 109, 59>>, <<977>>>>, (* thetasym; *)
      <<<<116, 104, 101, 116, 97, 118, 59>>, <<977>>>>, (* thetav; *)
      <<<<116, 104, 105, 99, 107, 97, 112, 112, 114, 111, 120, 59>>, <<8776>>>>, (* thickapprox; *)
      <<<<116, 104, 105, 99, 107, 115, 105, 109, 59>>, <<8764>>>>, (* thicksim; *)
      <<<<116, 104, 105, 110, 115, 112, 59>>, <<8201>>>>, (* thinsp; *)
      <<<<116, 104, 107, 97, 112, 59>>, <<8776>>>>, (* thkap; *)
      <<<<116, 104, 107, 115, 105, 109, 59>>, <<8764>>>>, (* thksim; *)
      <<<<116, 104, 111, 114, 110>>, <<254>>>>, (* thorn *)
      <<<<116, 104, 111, 114, 110, 59>>, <<254>>>>, (* thorn; *)
      <<<<116, 105, 108, 100, 101, 59>>, <<732>>>>, (* tilde; *)
      <<<<116, 105, 109, 101, 115>>, <<215>>>>, (* times *)
      <<<<116, 105, 109, 101, 115, 59>>, <<215>>>>, (* times; *)
      <<<<116, 105, 109, 101, 115, 98, 59>>, <<8864>>>>, (* timesb; *)
      <<<<116, 105, 109, 101, 115, 98, 97, 114, 59>>, <<10801>>>>, (* timesbar; *)
      <<<<116, 105, 109, 101, 115, 100, 59>>, <<10800>>>>, (* timesd; *)
      <<<<116, 105, 110, 116, 59>>, <<8749>>>>, (* tint; *)
      <<<<116, 111, 101, 97, 59>>, <<10536>>>>, (* toea; *)
      <<<<116, 111, 112, 59>>, <<8868>>>>, (* top; *)
      <<<<116, 111, 112, 98, 111, 116, 59>>, <<9014>>>>, (* topbot; *)
      <<<<116, 111, 112, 99, 105, 114, 59>>, <<10993>>>>, (* topcir; *)
      <<<<116, 111, 112, 102, 59>>, <<120165>>>>, (* topf; *)
      <<<<116, 111, 112, 102, 111, 114, 107, 59>>, <<10970>>>>, (* topfork; *)
      <<<<116, 111, 115, 97, 59>>, <<10537>>>>, (* tosa; *)
      <<<<116, 112, 114, 105, 109, 101, 59>>, <<8244>>>>, (* tprime; *)
      <<<<116, 114, 97, 100, 101, 59>>, <<8482>>>>, (* trade; *)
      <<<<116, 114, 105, 97, 110, 103, 108, 101, 59>>, <<9653>>>>, (* triangle; *)
      <<<<116, 114, 105, 97, 110, 103, 108, 101, 100, 111, 119, 110, 59>>, <<9663>>>>, (* triangledown; *)
      <<<<116, 114, 105, 97, 110, 103, 108, 101, 108, 101, 102, 116, 59>>, <<9667>>>>, (* triangleleft; *)
      <<<<116, 114, 105, 97, 110, 103, 108, 101, 108, 101, 102, 116, 101, 113, 59>>, <<8884>>>>, (* trianglelefteq; *)
      <<<<116, 114, 105, 97, 110, 103, 108, 101, 113, 59>>, <<8796>>>>, (* triangleq; *)
      <<<<116, 114, 105, 97, 110, 103, 108, 101, 114, 105, 103, 104, 116, 59>>, <<9657>>>>, (* triangleright; *)
      <<<<116, 114, 105, 97, 110, 103, 108, 101, 114, 105, 103, 104, 116, 101, 113, 59>>, <<8885>>>>, (* trianglerighteq; *)
      <<<<116, 114, 105, 100, 111, 116, 59>>, <<9708>>>>, (* tridot; *)
      <<<<116, 114, 105, 101, 59>>, <<8796>>>>, (* trie; *)
      <<<<116, 114, 105, 109, 105, 110, 117, 115, 59>>, <<10810>>>>, (* triminus; *)
      <<<<116, 114, 105, 112, 108, 117, 115, 59>>, <<10809>>>>, (* triplus; *)
      <<<<116, 114, 105, 115, 98, 59>>, <<10701>>>>, (* trisb; *)
      <<<<116, 114, 105, 116, 105, 109, 101, 59>>, <<10811>>>>, (* tritime; *)
      <<<<116, 114, 112, 101, 122, 105, 117, 109, 59>>, <<9186>>>>, (* trpezium; *)
      <<<<116, 115, 99, 114, 59>>, <<120009>>>>, (* tscr; *)
      <<<<116, 115, 99, 121, 59>>, <<1094>>>>, (* tscy; *)
      <<<<116, 115, 104, 99, 121, 59>>, <<1115>>>>, (* tshcy; *)
      <<<<116, 115, 116, 114, 111, 107, 59>>, <<359>>>>, (* tstrok; *)
      <<<<116, 119, 105, 120, 116, 59>>, <<8812>>>>, (* twixt; *)
      <<<<116, 119, 111, 104, 101, 97, 100, 108, 101, 102, 116, 97, 114, 114, 111, 119, 59>>, <<8606>>>>, (* twoheadleftarrow; *)
      <<<<116, 119, 111, 104, 101, 97, 100, 114, 105, 103, 104, 116, 97, 114, 114, 111, 119, 59>>, <<8608>>>>, (* twoheadrightarrow; *)
      <<<<117, 65, 114, 114, 59>>, <<8657>>>>, (* uArr; *)
      <<<<117, 72, 97, 114, 59>>, <<10595>>>>, (* uHar; *)
      <<<<117, 97, 99, 117, 116, 101>>, <<250>>>>, (* uacute *)
      <<<<117, 97, 99, 117, 116, 101, 59>>, <<250>>>>, (* uacute; *)
      <<<<117, 97, 114, 114, 59>>, <<8593>>>>, (* uarr; *)
      <<<<117, 98, 114, 99, 121, 59>>, <<1118>>>>, (* ubrcy; *)
      <<<<117, 98, 114, 101, 118, 101, 59>>, <<365>>>>, (* ubreve; *)
      <<<<117, 99, 105, 114, 99>>, <<251>>>>, (* ucirc *)
      <<<<117, 99, 105, 114, 99, 59>>, <<251>>>>, (* ucirc; *)
      <<<<117, 99, 121, 59>>, <<1091>>>>, (* ucy; *)
      <<<<117, 100, 97, 114, 114, 59>>, <<8645>>>>, (* udarr; *)
      <<<<117, 100, 98, 108, 97, 99, 59>>, <<369>>>>, (* udblac; *)
      <<<<117, 100, 104, 97, 114, 59>>, <<10606>>>>, (* udhar; *)
      <<<<117, 102, 105, 115, 104, 116, 59>>, <<10622>>>>, (* ufisht; *)
      <<<<117, 102, 114, 59>>, <<120114>>>>, (* ufr; *)
      <<<<117, 103, 114, 97, 118, 101>>, <<249>>>>, (* ugrave *)
      <<<<117, 103, 114, 97, 118, 101, 59>>, <<249>>>>, (* ugrave; *)
      <<<<117, 104, 97, 114, 108, 59>>, <<8639>>>>, (* uharl; *)
      <<<<117, 104, 97, 114, 114, 59>>, <<8638>>>>, (* uharr; *)
      <<<<117, 104, 98, 108, 107, 59>>, <<9600>>>>, (* uhblk; *)
      <<<<117, 108, 99, 111, 114, 110, 59>>, <<8988>>>>, (* ulcorn; *)
      <<<<117, 108, 99, 111, 114, 110, 101, 114, 59>>, <<8988>>>>, (* ulcorner; *)
      <<<<117, 108, 99, 114, 111, 112, 59>>, <<8975>>>>, (* ulcrop; *)
      <<<<117, 108, 116, 114, 105, 59>>, <<9720>>>>, (* ultri; *)
      <<<<117, 109, 97, 99, 114, 59>>, <<363>>>>, (* umacr; *)
      <<<<117, 109, 108>>, <<168>>>>, (* uml *)
      <<<<117, 109, 108, 59>>, <<168>>>>, (* uml; *)
      <<<<117, 111, 103, 111, 110, 59>>, <<371>>>>, (* uogon; *)
      <<<<117, 111, 112, 102, 59>>, <<120166>>>>, (* uopf; *)
      <<<<117, 112, 97, 114, 114, 111, 119, 59>>, <<8593>>>>, (* uparrow; *)
      <<<<117, 112, 100, 111, 119, 110, 97, 114, 114, 111, 119, 59>>, <<8597>>>>, (* updownarrow; *)
      <<<<117, 112, 104, 97, 114, 112, 111, 111, 110, 108, 101, 102, 116, 59>>, <<8639>>>>, (* upharpoonleft; *)
      <<<<117, 112, 104, 97, 114, 112, 111, 111, 110, 114, 105, 103, 104, 116, 59>>, <<8638>>>>, (* upharpoonright; *)
      <<<<117, 112, 108, 117, 115, 59>>, <<8846>>>>, (* uplus; *)
      <<<<117, 112, 115, 105, 59>>, <<965>>>>, (* upsi; *)
      <<<<117, 112, 115, 105, 104, 59>>, <<978>>>>, (* upsih; *)
      <<<<117, 112, 115, 105, 108, 111, 110, 59>>, <<965>>>>, (* upsilon; *)
      <<<<117, 112, 117, 112, 97, 114, 114, 111, 119, 115, 59>>, <<8648>>>>, (* upuparrows; *)
      <<<<117, 114, 99, 111, 114, 110, 59>>, <<8989>>>>, (* urcorn; *)
      <<<<117, 114, 99, 111, 114, 110, 101, 114, 59>>, <<8989>>>>, (* urcorner; *)
      <<<<117, 114, 99, 114, 111, 112, 59>>, <<8974>>>>, (* urcrop; *)
      <<<<117, 114, 105, 110, 103, 59>>, <<367>>>>, (* uring; *)
      <<<<117, 114, 116, 114, 105, 59>>, <<9721>>>>, (* urtri; *)
      <<<<117, 115, 99, 114, 59>>, <<120010>>>>, (* uscr; *)
      <<<<117, 116, 100, 111, 116, 59>>, <<8944>>>>, (* utdot; *)
      <<<<117, 116, 105, 108, 100, 101, 59>>, <<361>>>>, (* utilde; *)
      <<<<117, 116, 114, 105, 59>>, <<9653>>>>, (* utri; *)
      <<<<117, 116, 114, 105, 102, 59>>, <<9652>>>>, (* utrif; *)
      <<<<117, 117, 97, 114, 114, 59>>, <<8648>>>>, (* uuarr; *)
      <<<<117, 117, 109, 108>>, <<252>>>>, (* uuml *)
      <<<<117, 117, 109, 108, 59>>, <<252>>>>, (* uuml; *)
      <<<<117, 119, 97, 110, 103, 108, 101, 59>>, <<10663>>>>, (* uwangle; *)
      <<<<118, 65, 114, 114, 59>>, <<8661>>>>, (* vArr; *)
      <<<<118, 66, 97, 114, 59>>, <<10984>>>>, (* vBar; *)
      <<<<118, 66, 97, 114, 118, 59>>, <<10985>>>>, (* vBarv; *)
      <<<<118, 68, 97, 115, 104, 59>>, <<8872>>>>, (* vDash; *)
      <<<<118, 97, 110, 103, 114, 116, 59>>, <<10652>>>>, (* vangrt; *)
      <<<<118, 97, 114, 101, 112, 115, 105, 108, 111, 110, 59>>, <<1013>>>>, (* varepsilon; *)
      <<<<118, 97, 114, 107, 97, 112, 112, 97, 59>>, <<1008>>>>, (* varkappa; *)
      <<<<118, 97, 114, 110, 111, 116, 104, 105, 110, 103, 59>>, <<8709>>>>, (* varnothing; *)
      <<<<118, 97, 114, 112, 104, 105, 59>>, <<981>>>>, (* varphi; *)
      <<<<118, 97, 114, 112, 105, 59>>, <<982>>>>, (* varpi; *)
      <<<<118, 97, 114, 112, 114, 111, 112, 116, 111, 59>>, <<8733>>>>, (* varpropto; *)
      <<<<118, 97, 114, 114, 59>>, <<8597>>>>, (* varr; *)
      <<<<118, 97, 114, 114, 104, 111, 59>>, <<1009>>>>, (* varrho; *)
      <<<<118, 97, 114, 115, 105, 103, 109, 97, 59>>, <<962>>>>, (* varsigma; *)
      <<<<118, 97, 114, 115, 117, 98, 115, 101, 116, 110, 101, 113, 59>>, <<8842, 65024>>>>, (* varsubsetneq; *)
      <<<<118, 97, 114, 115, 117, 98, 115, 101, 116, 110, 101, 113, 113, 59>>, <<10955, 65024>>>>, (* varsubsetneqq; *)
      <<<<118, 97, 114, 115, 117, 112, 115, 101, 116, 110, 101, 113, 59>>, <<8843, 65024>>>>, (* varsupsetneq; *)
      <<<<118, 97, 114, 115, 117, 112, 115, 101, 116, 110, 101, 113, 113, 59>>, <<10956, 65024>>>>, (* varsupsetneqq; *)
      <<<<118, 97, 114, 116, 104, 101, 116, 97, 59>>, <<977>>>>, (* vartheta; *)
      <<<<118, 97, 114, 116, 114, 105, 97, 110, 103, 108, 101, 108, 101, 102, 116, 59>>, <<8882>>>>, (* vartriangleleft; *)
      <<<<118, 97, 114, 116, 114, 105, 97, 110, 103, 108, 101, 114, 105, 103, 104, 116, 59>>, <<8883>>>>, (* vartriangleright; *)
      <<<<118, 99, 121, 59>>, <<1074>>>>, (* vcy; *)
      <<<<118, 100, 97, 115, 104, 59>>, <<8866>>>>, (* vdash; *)
      <<<<118, 101, 101, 59>>, <<8744>>>>, (* vee; *)
      <<<<118, 101, 101, 98, 97, 114, 59>>, <<8891>>>>, (* veebar; *)
      <<<<118, 101, 101, 101, 113, 59>>, <<8794>>>>, (* veeeq; *)
      <<<<118, 101, 108, 108, 105, 112, 59>>, <<8942>>>>, (* vellip; *)
      <<<<118, 101, 114, 98, 97, 114, 59>>, <<124>>>>, (* verbar; *)
      <<<<118, 101, 114, 116, 59>>, <<124>>>>, (* vert; *)
      <<<<118, 102, 114, 59>>, <<120115>>>>, (* vfr; *)
      <<<<118, 108, 116, 114, 105, 59>>, <<8882>>>>, (* vltri; *)
      <<<<118, 110, 115, 117, 98, 59>>, <<8834, 8402>>>>, (* vnsub; *)
      <<<<118, 110, 115, 117, 112, 59>>, <<8835, 8402>>>>, (* vnsup; *)
      <<<<118, 111, 112, 102, 59>>, <<120167>>>>, (* vopf; *)
      <<<<118, 112, 114, 111, 112, 59>>, <<8733>>>>, (* vprop; *)
      <<<<118, 114, 116, 114, 105, 59>>, <<8883>>>>, (* vrtri; *)
      <<<<118, 115, 99, 114, 59>>, <<120011>>>>, (* vscr; *)
      <<<<118, 115, 117, 98, 110, 69, 59>>, <<10955, 65024>>>>, (* vsubnE; *)
      <<<<118, 115, 117, 98, 110, 101, 59>>, <<8842, 65024>>>>, (* vsubne; *)
      <<<<118, 115, 117, 112, 110, 69, 59>>, <<10956, 65024>>>>, (* vsupnE; *)
      <<<<118, 115, 117, 112, 110, 101, 59>>, <<8843, 65024>>>>, (* vsupne; *)
      <<<<118, 122, 105, 103, 122, 97, 103, 59>>, <<10650>>>>, (* vzigzag; *)
      <<<<119, 99, 105, 114, 99, 59>>, <<373>>>>, (* wcirc; *)
      <<<<119, 101, 100, 98, 97, 114, 59>>, <<10847>>>>, (* wedbar; *)
      <<<<119, 101, 100, 103, 101, 59>>, <<8743>>>>, (* wedge; *)
      <<<<119, 101, 100, 103, 101, 113, 59>>, <<8793>>>>, (* wedgeq; *)
      <<<<119, 101, 105, 101, 114, 112, 59>>, <<8472>>>>, (* weierp; *)
      <<<<119, 102, 114, 59>>, <<120116>>>>, (* wfr; *)
      <<<<119, 111, 112, 102, 59>>, <<120168>>>>, (* wopf; *)
      <<<<119, 112, 59>>, <<8472>>>>, (* wp; *)
      <<<<119, 114, 59>>, <<8768>>>>, (* wr; *)
      <<<<119, 114, 101, 97, 116, 104, 59>>, <<8768>>>>, (* wreath; *)
      <<<<119, 115, 99, 114, 59>>, <<120012>>>>, (* wscr; *)
      <<<<120, 99, 97, 112, 59>>, <<8898>>>>, (* xcap; *)
      <<<<120, 99, 105, 114, 99, 59>>, <<9711>>>>, (* xcirc; *)
      <<<<120, 99, 117, 112, 59>>, <<8899>>>>, (* xcup; *)
      <<<<120, 100, 116, 114, 105, 59>>, <<9661>>>>, (* xdtri; *)
      <<<<120, 102, 114, 59>>, <<120117>>>>, (* xfr; *)
      <<<<120, 104, 65, 114, 114, 59>>, <<10234>>>>, (* xhArr; *)
      <<<<120, 104, 97, 114, 114, 59>>, <<10231>>>>, (* xharr; *)
      <<<<120, 105, 59>>, <<958>>>>, (* xi; *)
      <<<<120, 108, 65, 114, 114, 59>>, <<10232>>>>, (* xlArr; *)
      <<<<120, 108, 97, 114, 114, 59>>, <<10229>>>>, (* xlarr; *)
      <<<<120, 109, 97, 112, 59>>, <<10236>>>>, (* xmap; *)
      <<<<120, 110, 105, 115, 59>>, <<8955>>>>, (* xnis; *)
      <<<<120, 111, 100, 111, 116, 59>>, <<10752>>>>, (* xodot; *)
      <<<<120, 111, 112, 102, 59>>, <<120169>>>>, (* xopf; *)
      <<<<120, 111, 112, 108, 117, 115, 59>>, <<10753>>>>, (* xoplus; *)
      <<<<120, 111, 116, 105, 109, 101, 59>>, <<10754>>>>, (* xotime; *)
      <<<<120, 114, 65, 114, 114, 59>>, <<10233>>>>, (* xrArr; *)
      <<<<120, 114, 97, 114, 114, 59>>, <<10230>>>>, (* xrarr; *)
      <<<<120, 115, 99, 114, 59>>, <<120013>>>>, (* xscr; *)
      <<<<120, 115, 113, 99, 117, 112, 59>>, <<10758>>>>, (* xsqcup; *)
      <<<<120, 117, 112, 108, 117, 115, 59>>, <<10756>>>>, (* xuplus; *)
      <<<<120, 117, 116, 114, 105, 59>>, <<9651>>>>, (* xutri; *)
      <<<<120, 118, 101, 101, 59>>, <<8897>>>>, (* xvee; *)
      <<<<120, 119, 101, 100, 103, 101, 59>>, <<8896>>>>, (* xwedge; *)
      <<<<121, 97, 99, 117, 116, 101>>, <<253>>>>, (* yacute *)
      <<<<121, 97, 99, 117, 116, 101, 59>>, <<253>>>>, (* yacute; *)
      <<<<121, 97, 99, 121, 59>>, <<1103>>>>, (* yacy; *)
      <<<<121, 99, 105, 114, 99, 59>>, <<375>>>>, (* ycirc; *)
      <<<<121, 99, 121, 59>>, <<1099>>>>, (* ycy; *)
      <<<<121, 101, 110>>, <<165>>>>, (* yen *)
      <<<<121, 101, 110, 59>>, <<165>>>>, (* yen; *)
      <<<<121, 102, 114, 59>>, <<120118>>>>, (* yfr; *)
      <<<<121, 105, 99, 121, 59>>, <<1111>>>>, (* yicy; *)
      <<<<121, 111, 112, 102, 59>>, <<120170>>>>, (* yopf; *)
      <<<<121, 115, 99, 114, 59>>, <<120014>>>>, (* yscr; *)
      <<<<121, 117, 99, 121, 59>>, <<1102>>>>, (* yucy; *)
      <<<<121, 117, 109, 108>>, <<255>>>>, (* yuml *)
      <<<<121, 117, 109, 108, 59>>, <<255>>>>, (* yuml; *)
      <<<<122, 97, 99, 117, 116, 101, 59>>, <<378>>>>, (* zacute; *)
      <<<<122, 99, 97, 114, 111, 110, 59>>, <<382>>>>, (* zcaron; *)
      <<<<122, 99, 121, 59>>, <<1079>>>>, (* zcy; *)
      <<<<122, 100, 111, 116, 59>>, <<380>>>>, (* zdot; *)
      <<<<122, 101, 101, 116, 114, 102, 59>>, <<8488>>>>, (* zeetrf; *)
      <<<<122, 101, 116, 97, 59>>, <<950>>>>, (* zeta; *)
      <<<<122, 102, 114, 59>>, <<120119>>>>, (* zfr; *)
      <<<<122, 104, 99, 121, 59>>, <<1078>>>>, (* zhcy; *)
      <<<<122, 105, 103, 114, 97, 114, 114, 59>>, <<8669>>>>, (* zigrarr; *)
      <<<<122, 111, 112, 102, 59>>, <<120171>>>>, (* zopf; *)
      <<<<122, 115, 99, 114, 59>>, <<120015>>>>, (* zscr; *)
      <<<<122, 119, 106, 59>>, <<8205>>>>, (* zwj; *)
      <<<<122, 119, 110, 106, 59>>, <<8204>>>> (* zwnj; *)
    }

\* html._invalid_charrefs: <<number, text>>.
_invalid_charrefs ==
    {
      <<0, <<65533>>>>, <<13, <<13>>>>, <<128, <<8364>>>>, <<129, <<129>>>>,
      <<130, <<8218>>>>, <<131, <<402>>>>, <<132, <<8222>>>>,
      <<133, <<8230>>>>, <<134, <<8224>>>>, <<135, <<8225>>>>,
      <<136, <<710>>>>, <<137, <<8240>>>>, <<138, <<352>>>>,
      <<139, <<8249>>>>, <<140, <<338>>>>, <<141, <<141>>>>, <<142, <<381>>>>,
      <<143, <<143>>>>, <<144, <<144>>>>, <<145, <<8216>>>>,
      <<146, <<8217>>>>, <<147, <<8220>>>>, <<148, <<8221>>>>,
      <<149, <<8226>>>>, <<150, <<8211>>>>, <<151, <<8212>>>>,
      <<152, <<732>>>>, <<153, <<8482>>>>, <<154, <<353>>>>,
      <<155, <<8250>>>>, <<156, <<339>>>>, <<157, <<157>>>>, <<158, <<382>>>>,
      <<159, <<376>>>>
    }

\* html._invalid_codepoints: <<first, last>> ranges.
_invalid_codepoints ==
    {
      <<1, 8>>, <<11, 11>>, <<14, 31>>, <<127, 159>>, <<64976, 65007>>,
      <<65534, 65535>>, <<131070, 131071>>, <<196606, 196607>>,
      <<262142, 262143>>, <<327678, 327679>>, <<393214, 393215>>,
      <<458750, 458751>>, <<524286, 524287>>, <<589822, 589823>>,
      <<655358, 655359>>, <<720894, 720895>>, <<786430, 786431>>,
      <<851966, 851967>>, <<917502, 917503>>, <<983038, 983039>>,
      <<1048574, 1048575>>, <<1114110, 1114111>>
    }

(***************************************************************************)
(* Strings.  A position in a string is counted from 0, as Python counts    *)
(* it: At(s, i) is s[i] and Slice(s, i, j) is s[i:j].  The operators that  *)
(* scan a string look at all its positions at once instead of walking      *)
(* along it, so that they also work on texts thousands of characters long. *)
(***************************************************************************)
\* An Optional value: None or Some(value).
None == [none |-> TRUE]

Some(value) == [none |-> FALSE, value |-> value]

At(s, i) == s[i + 1]

Slice(s, i, j) == SubSeq(s, i + 1, IF j < Len(s) THEN j ELSE Len(s))

\* s[i:]
SliceFrom(s, i) == SubSeq(s, i + 1, Len(s))

Range(s) == {s[i] : i \in DOMAIN s}

Min(S) == CHOOSE x \in S : \A y \in S : x <= y

Max(S) == 0 - Min({ 0 - x : x \in S })

InRanges(c, ranges) == \E r \in ranges : r[1] <= c /\ c <= r[2]

\* The first position from i on whose character is not in the set class:
\* where a greedy run of the class that starts at i ends.
SkipWhile(s, i, class) ==
    LET First(stops) == IF stops = {} THEN (IF i > Len(s) THEN i ELSE Len(s)) ELSE Min(stops)
    IN  First({ j \in i .. Len(s) - 1 : At(s, j) \notin class })

\* The last position before j whose character is not in the set class,
\* -1 when there is none.
SkipBack(s, j, class) ==
    LET Last(stops) == IF stops = {} THEN -1 ELSE Max(stops)
    IN  Last({ k \in 0 .. j - 1 : At(s, k) \notin class })

\* str.find(c, i) for one character c: -1 when s[i:] does not hold it.
find(s, c, i) ==
    LET First(hits) == IF hits = {} THEN -1 ELSE Min(hits)
    IN  First({ j \in i .. Len(s) - 1 : At(s, j) = c })

\* str.startswith(prefix, i)
startswith(s, prefix, i) == Slice(s, i, i + Len(prefix)) = prefix

StartsWith(s, prefix) == startswith(s, prefix, 0)

EndsWith(s, suffix) ==
    /\ Len(suffix) <= Len(s)
    /\ SubSeq(s, Len(s) - Len(suffix) + 1, Len(s)) = suffix

IsSpace(c) == c \in WS

\* str.lstrip(), str.rstrip() and str.strip() without argument.
LStrip(s) == SliceFrom(s, SkipWhile(s, 0, {cp \in Range(s) : IsSpace(cp)}))

RStrip(s) == Slice(s, 0, SkipBack(s, Len(s), {cp \in Range(s) : IsSpace(cp)}) + 1)

Strip(s) == LStrip(RStrip(s))

\* str.split(sep) for a one-character separator: the pieces between the
\* separators, empty pieces kept.
Split(s, sep) ==
    LET Cut(cuts, k) ==
            IF k = 0 THEN 0
            ELSE IF k > Cardinality(cuts) THEN Len(s) + 1
            ELSE CHOOSE i \in cuts : Cardinality({ j \in cuts : j <= i }) = k
        Pieces(cuts) ==
            [k \in 1 .. (Cardinality(cuts) + 1) |->
                SubSeq(s, Cut(cuts, k - 1) + 1, Cut(cuts, k) - 1)]
    IN  Pieces({ i \in DOMAIN s : s[i] = sep })

\* str.split() without argument: the maximal runs of non-whitespace.
SplitWS(s) ==
    LET Start(starts, k) == CHOOSE i \in starts : Cardinality({ j \in starts : j <= i }) = k
        Word(first) == Slice(s, first, SkipWhile(s, first, {c \in Range(s) : c \notin WS}))
        Words(starts) == [k \in 1 .. Cardinality(starts) |-> Word(Start(starts, k) - 1)]
    IN  Words({ i \in DOMAIN s : s[i] \notin WS /\ (i = 1 \/ s[i - 1] \in WS) })

RECURSIVE Concat(_)
Concat(ss) == IF ss = <<>> THEN <<>> ELSE Head(ss) \o Concat(Tail(ss))

\* str.isdecimal() on one character, and the digit it stands for.
IsDecimal(c) == \E z \in DecimalZeros : z <= c /\ c <= z + 9

DecimalValue(c) == c - (CHOOSE z \in DecimalZeros : z <= c /\ c <= z + 9)

\* str.isalnum() on one character.
IsAlnum(c) == InRanges(c, AlnumRanges)

\* The classes [a-zA-Z], [0-9] and [0-9a-fA-F] of the regular expressions.
IsAsciiLetter(c) == (65 <= c /\ c <= 90) \/ (97 <= c /\ c <= 122)

IsAsciiDigit(c) == 48 <= c /\ c <= 57

IsHexDigit(c) == IsAsciiDigit(c) \/ (65 <= c /\ c <= 70) \/ (97 <= c /\ c <= 102)

\* str.lower() on one character other than the capital sigma: U+0130 becomes
\* two characters, every other character one.
LowerIn(c, hits) == IF hits = {} THEN <<c>> ELSE <<c + (CHOOSE r \in hits : TRUE)[4]>>

LowerChar(c) ==
    IF c = 304 THEN <<105, 775>>
    ELSE LowerIn(c, { r \in LowerRanges : r[1] <= c /\ c <= r[2] /\ (c - r[1]) % r[3] = 0 })

IsCaseIgnorable(c) == InRanges(c, CaseIgnorable)

\* The capital sigma at position i is in the Final_Sigma context: a cased
\* letter before it and none after it, case-ignorable characters skipped.
FinalSigmaBetween(s, before, after, cased) ==
    /\ before >= 0
    /\ InRanges(At(s, before), cased)
    /\ (after >= Len(s) \/ ~InRanges(At(s, after), cased))

FinalSigmaIn(s, i, ignorable, cased) ==
    FinalSigmaBetween(s, SkipBack(s, i, ignorable), SkipWhile(s, i + 1, ignorable), cased)

FinalSigma(s, i) ==
    FinalSigmaIn(s, i, { cp \in Range(s) : IsCaseIgnorable(cp) }, CasedLetter)

\* str.lower() of the character at position i of s.
LowerAt(s, i) ==
    IF At(s, i) = 931 THEN (IF FinalSigma(s, i) THEN <<962>> ELSE <<963>>)
    ELSE LowerChar(At(s, i))

\* str.lower(): the lowered characters, joined.
LowerJoin(value, lowered) ==
    IF 304 \in Range(value) THEN Concat(lowered)
    ELSE [k \in DOMAIN value |-> lowered[k][1]]

Lower(value) == LowerJoin(value, [k \in DOMAIN value |-> LowerAt(value, k - 1)])

(***************************************************************************)
(* int() and chr().  Python integers are unbounded; the model keeps a      *)
(* magnitude up to CIntMax as it is and every larger one as one of two     *)
(* values, which is all that chr() and the index tests distinguish.        *)
(***************************************************************************)
\* The largest value chr() accepts as a C int; an argument above it, or
\* below -CIntMax - 1, raises OverflowError.
CIntMax == 2147483647

\* The magnitude CIntMax + 1.
JustTooBig == -2

\* Every magnitude above CIntMax + 1.
TooBig == -1

\* The first value chr() rejects with ValueError: sys.maxunicode + 1.
ChrLimit == 1114112

\* sys.get_int_max_str_digits(): int() raises ValueError for a decimal
\* string of more digits.
MaxStrDigits == 4300

\* The whitespace int() strips: that of str.strip() without U+001C..U+001F.
IsIntSpace(c) == c \in WS \ {28, 29, 30, 31}

\* The character int() reads for c: a decimal digit of any script is its
\* ASCII digit, a space of any script is " ", every other character above
\* U+007E is one that no number holds (-1).
ToAscii(c) ==
    IF c < 127 THEN c
    ELSE IF c \in WS THEN 32
    ELSE IF IsDecimal(c) THEN 48 + DecimalValue(c)
    ELSE -1

\* The value of a digit character in a base up to 36, 99 for other characters.
DigitValue(c) ==
    IF 48 <= c /\ c <= 57 THEN c - 48
    ELSE IF 97 <= c /\ c <= 122 THEN c - 87
    ELSE IF 65 <= c /\ c <= 90 THEN c - 55
    ELSE 99

\* acc * base + digit on magnitudes.
Accumulate(acc, base, digit) ==
    IF acc \in {TooBig, JustTooBig} THEN TooBig
    ELSE IF acc <= (CIntMax - digit) \div base THEN acc * base + digit
    ELSE IF acc - 1 <= (CIntMax - digit) \div base
            /\ (acc - 1) * base + digit = CIntMax - base + 1
         THEN JustTooBig
         ELSE TooBig

\* The magnitude the digits stand for (no underscores among them).
RECURSIVE MagnitudeFrom(_, _, _, _)
MagnitudeFrom(digits, base, i, acc) ==
    IF i >= Len(digits) THEN acc
    ELSE MagnitudeFrom(digits, base, i + 1, Accumulate(acc, base, DigitValue(At(digits, i))))

MagnitudeBehind(digits, base, first) ==
    IF Len(digits) - first > 10 THEN TooBig ELSE MagnitudeFrom(digits, base, first, 0)

Magnitude(digits, base) == MagnitudeBehind(digits, base, SkipWhile(digits, 0, {48}))

IntError == [ok |-> FALSE, negative |-> FALSE, magnitude |-> 0]

IntResult(negative, magnitude) ==
    [ok |-> TRUE, negative |-> negative /\ magnitude # 0, magnitude |-> magnitude]

\* int(s, base) for base 10 and 16: surrounding whitespace, a sign, for
\* base 16 a prefix 0x or 0X, then digits with single underscores between
\* them (one may follow the prefix).
IntPrefixed(unsigned, base) ==
    /\ base = 16
    /\ Len(unsigned) >= 2
    /\ unsigned[1] = 48 (* 0 *)
    /\ unsigned[2] \in {120 (* x *), 88 (* X *)}

IntWellFormed(body, base) ==
    /\ body # <<>>
    /\ \A k \in DOMAIN body :
          IF body[k] = 95 (* _ *)
          THEN 1 < k /\ k < Len(body) /\ body[k - 1] # 95 /\ body[k + 1] # 95
          ELSE body[k] >= 0 /\ DigitValue(body[k]) < base

IntDigits(negative, digits, base) ==
    IF base = 10 /\ Len(digits) > MaxStrDigits THEN IntError
    ELSE IntResult(negative, Magnitude(digits, base))

IntBody(negative, body, base) ==
    IF ~IntWellFormed(body, base) THEN IntError
    ELSE IntDigits(negative, SelectSeq(body, LAMBDA c : c # 95 (* _ *)), base)

IntUnsigned(negative, unsigned, base) ==
    IntBody(negative,
            IF IntPrefixed(unsigned, base)
            THEN (IF Len(unsigned) >= 3 /\ unsigned[3] = 95 (* _ *)
                  THEN SliceFrom(unsigned, 3) ELSE SliceFrom(unsigned, 2))
            ELSE unsigned,
            base)

IntStripped(stripped, base) ==
    IntUnsigned(stripped # <<>> /\ stripped[1] = 45 (* - *),
                IF stripped # <<>> /\ stripped[1] \in {43 (* + *), 45 (* - *)}
                THEN Tail(stripped) ELSE stripped,
                base)

IntStrip(t, space) == Slice(t, SkipWhile(t, 0, space), SkipBack(t, Len(t), space) + 1)

IntRead(t, base) == IntStripped(IntStrip(t, { cp \in Range(t) : IsIntSpace(cp) }), base)

int(s, base) == IntRead([k \in DOMAIN s |-> ToAscii(s[k])], base)

\* chr(v): "OverflowError", "ValueError" or "ok".
chr(v) ==
    IF v.magnitude = TooBig \/ (v.magnitude = JustTooBig /\ ~v.negative) THEN "OverflowError"
    ELSE IF v.negative \/ v.magnitude = JustTooBig \/ v.magnitude >= ChrLimit THEN "ValueError"
    ELSE "ok"

(***************************************************************************)
(* Node and the tag table.                                                 *)
(***************************************************************************)
T_document == <<100, 111, 99, 117, 109, 101, 110, 116>> (* "document" *)

T_br == <<98, 114>> (* "br" *)

T_img == <<105, 109, 103>> (* "img" *)

T_p == <<112 (* p *)>>

T_b == <<98 (* b *)>>

VOID_TAGS ==
    { <<97, 114, 101, 97>> (* "area" *), <<98, 97, 115, 101>> (* "base" *), T_br, <<99, 111, 108>> (* "col" *),
      <<101, 109, 98, 101, 100>> (* "embed" *), <<104, 114>> (* "hr" *), T_img,
      <<105, 110, 112, 117, 116>> (* "input" *), <<108, 105, 110, 107>> (* "link" *),
      <<109, 101, 116, 97>> (* "meta" *), <<112, 97, 114, 97, 109>> (* "param" *),
      <<115, 111, 117, 114, 99, 101>> (* "source" *), <<116, 114, 97, 99, 107>> (* "track" *),
      <<119, 98, 114>> (* "wbr" *) }

\* Node.__init__
Node(tag, attrs) == [tag |-> tag, attrs |-> attrs, contents |-> <<>>]

ChildEntry(id) == [isNode |-> TRUE, id |-> id, text |-> <<>>]

TextEntry(text) == [isNode |-> FALSE, id |-> 0, text |-> text]

\* Node.children: the Node entries of the contents, in order.
children(ns, n) == SelectSeq(ns[n].contents, LAMBDA e : e.isNode)

\* Node.add_child
add_child(ns, parent, child) ==
    [ns EXCEPT ![parent].contents = Append(@, ChildEntry(child))]

\* Node.add_text
add_text(ns, n, text) ==
    IF text # <<>>
    THEN [ns EXCEPT ![n].contents = Append(@, TextEntry(text))]
    ELSE ns

\* dict.get(name): the value stored under name; HasAttr tells whether the
\* result is None.
HasAttr(attrs, name) == \E i \in DOMAIN attrs : attrs[i].name = name

AttrGet(attrs, name) ==
    IF HasAttr(attrs, name)
    THEN attrs[CHOOSE i \in DOMAIN attrs : attrs[i].name = name].value
    ELSE <<>>

\* Node.class_list
class_list(n) ==
    IF ~HasAttr(n.attrs, <<99, 108, 97, 115, 115>> (* "class" *))
       \/ AttrGet(n.attrs, <<99, 108, 97, 115, 115>> (* "class" *)) = <<>>
    THEN <<>>
    ELSE SplitWS(AttrGet(n.attrs, <<99, 108, 97, 115, 115>> (* "class" *)))

(***************************************************************************)
(* SimpleHTMLTreeBuilder.                                                  *)
(***************************************************************************)
\* One (key, value) pair as HTMLParser hands it over: value is None when
\* hasValue is FALSE.
AttrPair(name, value) == [name |-> name, value |-> value, hasValue |-> TRUE]

AttrBare(name) == [name |-> name, value |-> <<>>, hasValue |-> FALSE]

\* The loop of _start_node: None becomes "", setdefault keeps the first
\* occurrence of a key.
RECURSIVE BuildAttrDict(_, _)
BuildAttrDict(attrs, dict) ==
    IF attrs = <<>> THEN dict
    ELSE LET key == Head(attrs).name
             value == IF Head(attrs).hasValue THEN Head(attrs).value ELSE <<>>
         IN  BuildAttrDict(Tail(attrs),
                 IF HasAttr(dict, key) THEN dict
                 ELSE Append(dict, [name |-> key, value |-> value]))

\* Mutant of StartParent: add_child is called after the push, so a pushed
\* node is added to itself.
StartParentAfterPush(st, node, is_self_closing) ==
    IF ~is_self_closing THEN node ELSE st[Len(st)]

\* The node that receives the new child in _start_node: self.stack[-1].
StartParent(st, node, is_self_closing) == st[Len(st)]

\* Mutant of StartStack: the new node is pushed whatever is_self_closing says.
StartStackAlwaysPush(st, node, is_self_closing) == Append(st, node)

\* The stack after _start_node.
StartStack(st, node, is_self_closing) ==
    IF ~is_self_closing THEN Append(st, node) ELSE st

_start_node(ns, st, tag, attrs, is_self_closing) ==
    LET node == Len(ns) + 1
        created == Append(ns, Node(tag, BuildAttrDict(attrs, <<>>)))
    IN  [nodes |-> add_child(created, StartParent(st, node, is_self_closing), node),
         stack |-> StartStack(st, node, is_self_closing)]

\* The is_self_closing argument handle_starttag passes.
StartTagSelfClosing(tag) == tag \in VOID_TAGS

\* The loop of handle_endtag: index runs from len(stack) - 1 down to 1
\* (0-based), here from Len(st) down to 2.
RECURSIVE EndTagScan(_, _, _, _)
EndTagScan(ns, st, tag, index) ==
    IF index < 2 THEN st
    ELSE IF ns[st[index]].tag = tag THEN SubSeq(st, 1, index - 1)
    ELSE EndTagScan(ns, st, tag, index - 1)

\* Mutant of EndTagStack: `del self.stack[index]`, only the matching entry is
\* removed and the entries above it stay open.
EndTagStackDelOne(ns, st, tag) ==
    LET after == EndTagScan(ns, st, tag, Len(st))
    IN  IF after = st THEN st
        ELSE after \o SubSeq(st, Len(after) + 2, Len(st))

\* Mutant of EndTagStack: `range(len(self.stack) - 1, -1, -1)`, the scan
\* reaches the bottom entry, so that an end tag naming the root pops it.
EndTagStackToRoot(ns, st, tag) ==
    LET after == EndTagScan(ns, st, tag, Len(st))
    IN  IF after = st /\ ns[st[1]].tag = tag THEN <<>> ELSE after

\* The stack after handle_endtag.
EndTagStack(ns, st, tag) == EndTagScan(ns, st, tag, Len(st))

InTable(table, key) == \E e \in table : e[1] = key

Lookup(table, key) == (CHOOSE e \in table : e[1] = key)[2]

\* The text handle_entityref adds.
EntityText(name) ==
    IF InTable(name2codepoint, name)
    THEN <<Lookup(name2codepoint, name)>>
    ELSE <<38 (* & *)>> \o name \o <<59 (* ; *)>>

\* The value handle_charref hands to chr(): int(name[1:], 16) when the name
\* starts with "x" or "X", else int(name).
CharrefValue(name) ==
    IF StartsWith(Lower(name), <<120 (* x *)>>)
    THEN int(Tail(name), 16)
    ELSE int(name, 10)

\* The outcome of handle_charref: int() raises ValueError or chr() raises
\* ValueError (caught, the reference is kept literally), chr() raises
\* OverflowError (not caught), or the character is added.
CharrefOutcome(name, value) ==
    IF ~value.ok \/ chr(value) = "ValueError"
    THEN [raised |-> FALSE, text |-> <<38, 35>> (* "&#" *) \o name \o <<59 (* ; *)>>]
    ELSE IF chr(value) = "OverflowError" THEN [raised |-> TRUE, text |-> <<>>]
    ELSE [raised |-> FALSE, text |-> <<value.magnitude>>]

Charref(name) == CharrefOutcome(name, CharrefValue(name))

(***************************************************************************)
(* html.unescape, which HTMLParser applies to every attribute value.       *)
(***************************************************************************)
Unescaped(text) == [error |-> "", text |-> text]

UnescapeError(error) == [error |-> error, text |-> <<>>]

\* The characters the name of a reference in html._charref stops at:
\* [^\t\n\f <&#;]
IsReferenceChar(c) == c \notin {9, 10, 12, 32, 60 (* < *), 38 (* & *), 35 (* # *), 59 (* ; *)}

\* k, or k + 1 when a ";" stands at k.
AfterSemicolon(s, k) == IF k < Len(s) /\ At(s, k) = 59 (* ; *) THEN k + 1 ELSE k

\* Where the match of html._charref at the "&" at position i ends, -1 when
\* there is none: &(#[0-9]+;?|#[xX][0-9a-fA-F]+;?|[^\t\n\f <&#;]{1,32};?)
CharrefEnd(s, i) ==
    IF i + 1 < Len(s) /\ At(s, i + 1) = 35 (* # *)
    THEN IF i + 2 < Len(s) /\ IsAsciiDigit(At(s, i + 2))
         THEN AfterSemicolon(s, SkipWhile(s, i + 2, {cp \in Range(s) : IsAsciiDigit(cp)}))
         ELSE IF i + 3 < Len(s) /\ At(s, i + 2) \in {120 (* x *), 88 (* X *)}
                 /\ IsHexDigit(At(s, i + 3))
         THEN AfterSemicolon(s, SkipWhile(s, i + 3, {cp \in Range(s) : IsHexDigit(cp)}))
         ELSE -1
    ELSE LET Name(run) ==
                 IF run <= i + 1 THEN -1
                 ELSE AfterSemicolon(s, IF run - (i + 1) > 32 THEN i + 33 ELSE run)
         IN  Name(SkipWhile(s, i + 1, {cp \in Range(s) : IsReferenceChar(cp)}))

\* html._replace_charref for a numeric reference: what the number num
\* read from it is replaced by.
ReplaceNumber(num, invalid) ==
    IF ~num.ok THEN UnescapeError("ValueError")
    ELSE IF InTable(invalid, num.magnitude)
    THEN Unescaped(Lookup(invalid, num.magnitude))
    ELSE IF num.magnitude \in {TooBig, JustTooBig}
            \/ (55296 <= num.magnitude /\ num.magnitude <= 57343)
            \/ num.magnitude > 1114111
    THEN Unescaped(<<65533>>)
    ELSE IF InRanges(num.magnitude, _invalid_codepoints) THEN Unescaped(<<>>)
    ELSE Unescaped(<<num.magnitude>>)

\* The number of a numeric reference without its ";": hexadecimal behind
\* "x" or "X", else decimal.
ReferenceNumber(body) ==
    int(IF body[1] \in {120 (* x *), 88 (* X *)} THEN Tail(body) ELSE body,
        IF body[1] \in {120 (* x *), 88 (* X *)} THEN 16 ELSE 10)

\* s is the text after "&#".
ReplaceNumeric(s) ==
    ReplaceNumber(ReferenceNumber(IF s[Len(s)] = 59 (* ; *)
                                  THEN SubSeq(s, 1, Len(s) - 1) ELSE s),
                  _invalid_charrefs)

\* html._replace_charref for a named reference: the name itself, or its
\* longest proper prefix of at least two characters, that html5 holds.
ReplaceNamed(s) ==
    LET Named(table) ==
            IF InTable(table, s) THEN Unescaped(Lookup(table, s))
            ELSE LET Longest(known) ==
                         IF known = {} THEN Unescaped(<<38 (* & *)>> \o s)
                         ELSE Unescaped(Lookup(table, SubSeq(s, 1, Max(known)))
                                        \o SubSeq(s, Max(known) + 1, Len(s)))
                 IN  Longest({ x \in 2 .. Len(s) - 1 : InTable(table, SubSeq(s, 1, x)) })
    IN  Named(html5)

_replace_charref(s) ==
    IF s[1] = 35 (* # *) THEN ReplaceNumeric(Tail(s)) ELSE ReplaceNamed(s)

\* _charref.sub(_replace_charref, s) from position i on: the piece from i
\* to next is a reference (end >= 0) and replaced, or plain text up to the
\* next "&".
RECURSIVE UnescapeFrom(_, _)

UnescapeJoin(head, rest) ==
    IF rest.error # "" THEN rest ELSE Unescaped(head.text \o rest.text)

UnescapeHead(s, head, next) ==
    IF head.error # "" THEN head ELSE UnescapeJoin(head, UnescapeFrom(s, next))

UnescapePiece(s, i, end, next) ==
    UnescapeHead(s,
                 IF end >= 0 THEN _replace_charref(Slice(s, i + 1, end))
                 ELSE Unescaped(Slice(s, i, next)),
                 next)

UnescapeEnds(s, i, end, amp) ==
    UnescapePiece(s, i, end, IF end >= 0 THEN end ELSE IF amp < 0 THEN Len(s) ELSE amp)

UnescapeFrom(s, i) ==
    IF i >= Len(s) THEN Unescaped(<<>>)
    ELSE UnescapeEnds(s, i, IF At(s, i) = 38 (* & *) THEN CharrefEnd(s, i) ELSE -1,
                      find(s, 38 (* & *), i + 1))

unescape(s) == IF 38 (* & *) \notin Range(s) THEN Unescaped(s) ELSE UnescapeFrom(s, 0)

(***************************************************************************)
(* html.parser.HTMLParser of Python 3.11.  Its regular expressions are     *)
(* written as the scans they perform: where a greedy run ends, and what    *)
(* the match gives back when the rest of the expression does not match.    *)
(* A match is a record with the field `found`.                             *)
(***************************************************************************)
NoMatch == [found |-> FALSE]

\* The handler calls goahead makes.
Token(kind, tag, attrs, data) == [kind |-> kind, tag |-> tag, attrs |-> attrs, data |-> data]

StartToken(tag, attrs) == Token("starttag", tag, attrs, <<>>)

StartEndToken(tag, attrs) == Token("startendtag", tag, attrs, <<>>)

EndToken(tag) == Token("endtag", tag, <<>>, <<>>)

DataToken(data) == Token("data", <<>>, <<>>, data)

EntityToken(name) == Token("entityref", <<>>, <<>>, name)

CharToken(name) == Token("charref", <<>>, <<>>, name)

\* [^\t\n\r\f />\x00]: a character of a tag name after its first letter.
IsTagChar(c) == c \notin {9, 10, 13, 12, 32, 47 (* / *), 62 (* > *), 0}

\* [\s/]
IsSpaceOrSlash(c) == c \in WS \/ c = 47 (* / *)

\* [^\s/=>]: a character of an attribute name after its first one.
IsAttrNameChar(c) == c \notin WS /\ c \notin {47 (* / *), 61 (* = *), 62 (* > *)}

\* [^>\s]: a character of an unquoted attribute value.
IsBareChar(c) == c \notin WS /\ c # 62 (* > *)

\* (?:\s|/(?!>))* from position i: the run of whitespace and "/", which
\* ends at j, ends before a "/" that ">" follows.
SpaceAndSlashEnd(s, i, j) ==
    IF j > i /\ j < Len(s) /\ At(s, j - 1) = 47 (* / *) /\ At(s, j) = 62 (* > *)
    THEN j - 1 ELSE j

SkipSpaceAndSlash(s, i) ==
    SpaceAndSlashEnd(s, i, SkipWhile(s, i, { cp \in Range(s) : IsSpaceOrSlash(cp) }))

\* tagfind_tolerant.match(s, i): ([a-zA-Z][^\t\n\r\f />\x00]*)(?:\s|/(?!>))*
TagMatch(s, e) == [found |-> TRUE, nameEnd |-> e, end |-> SkipSpaceAndSlash(s, e)]

tagfind_tolerant(s, i) ==
    IF i < Len(s) /\ IsAsciiLetter(At(s, i))
    THEN TagMatch(s, SkipWhile(s, i + 1, { cp \in Range(s) : IsTagChar(cp) }))
    ELSE NoMatch

\* \s*=+\s*('[^']*'|"[^"]*"|(?![\'"])[^>\s]*) at position k, with
\* a the end of the first \s*, b the end of =+ and p the end of the second
\* \s*.  A quote at p without its closing quote (c < 0) makes the expression
\* give back one whitespace character (the value is then empty) or, when
\* there is none, one of two or more "=" (the value then starts with "=").
QuotedValue(s, a, b, p, c, bare) ==
    IF c >= 0 THEN [found |-> TRUE, start |-> p, end |-> c + 1]
    ELSE IF p > b THEN [found |-> TRUE, start |-> p - 1, end |-> p - 1]
    ELSE IF b - a >= 2
    THEN [found |-> TRUE, start |-> b - 1, end |-> SkipWhile(s, b - 1, bare)]
    ELSE NoMatch

AttrValueIn(s, a, b, p, bare) ==
    IF b = a THEN NoMatch
    ELSE IF p < Len(s) /\ At(s, p) \in {39 (* ' *), 34 (* quote *)}
    THEN QuotedValue(s, a, b, p, find(s, At(s, p), p + 1), bare)
    ELSE [found |-> TRUE, start |-> p, end |-> SkipWhile(s, p, bare)]

AttrValueAt(s, a, b, p) == AttrValueIn(s, a, b, p, { cp \in Range(s) : IsBareChar(cp) })

AttrValueAfterEquals(s, a, b, space) == AttrValueAt(s, a, b, SkipWhile(s, b, space))

AttrValueAfterSpace(s, a, space) ==
    AttrValueAfterEquals(s, a, SkipWhile(s, a, {61 (* = *)}), space)

AttrValueBehind(s, k, space) == AttrValueAfterSpace(s, SkipWhile(s, k, space), space)

AttrValue(s, k) == AttrValueBehind(s, k, { cp \in Range(s) : IsSpace(cp) })

\* attrfind_tolerant.match(s, k):
\* ((?<=['"\s/])[^\s/>][^\s/=>]*)(\s*=+\s*(...))?(?:\s|/(?!>))*
\* with e the end of the name and v the match of the value.
AttrMatch(s, e, v) ==
    [found |-> TRUE, nameEnd |-> e, hasRest |-> v.found,
     start |-> IF v.found THEN v.start ELSE 0,
     valueEnd |-> IF v.found THEN v.end ELSE 0,
     end |-> SkipSpaceAndSlash(s, IF v.found THEN v.end ELSE e)]

AttrNamed(s, e) == AttrMatch(s, e, AttrValue(s, e))

attrfind_tolerant(s, k) ==
    IF /\ k < Len(s)
       /\ At(s, k) \notin WS
       /\ At(s, k) \notin {47 (* / *), 62 (* > *)}
       /\ k >= 1
       /\ (At(s, k - 1) \in {39 (* ' *), 34 (* quote *), 47 (* / *)} \/ At(s, k - 1) \in WS)
    THEN AttrNamed(s, SkipWhile(s, k + 1, { cp \in Range(s) : IsAttrNameChar(cp) }))
    ELSE NoMatch

\* The attributes locatestarttagend_tolerant runs over from position j on.
RECURSIVE SkipAttrs(_, _)

SkipAttr(s, j, m) == IF m.found THEN SkipAttrs(s, m.end) ELSE j

SkipAttrs(s, j) == SkipAttr(s, j, attrfind_tolerant(s, j))

\* locatestarttagend_tolerant.match(s, i).end(), for "<" and a letter at i.
locatestarttagend_tolerant(s, i) ==
    SkipWhile(s,
              SkipAttrs(s, SkipWhile(s, SkipWhile(s, i + 2, { cp \in Range(s) : IsTagChar(cp) }),
                                     { cp \in Range(s) : IsSpaceOrSlash(cp) })),
              { cp \in Range(s) : IsSpace(cp) })

WholeStartTagEnd(s, i, j) ==
    IF j >= Len(s) THEN -1
    ELSE IF At(s, j) = 62 (* > *) THEN j + 1
    ELSE IF At(s, j) = 47 (* / *)
    THEN (IF startswith(s, <<47, 62>> (* "/>" *), j) THEN j + 2 ELSE -1)
    ELSE IF IsAsciiLetter(At(s, j)) \/ At(s, j) = 61 (* = *) THEN -1
    ELSE IF j > i THEN j ELSE i + 1

check_for_whole_start_tag(s, i) == WholeStartTagEnd(s, i, locatestarttagend_tolerant(s, i))

\* The value of one attribute as parse_starttag reads it from a match:
\* surrounding quotes are removed, a non-empty value is unescaped.
AttrDecoded(name, u) == [error |-> u.error, attr |-> AttrPair(name, u.text)]

AttrValued(m, name, value) ==
    IF ~m.hasRest THEN [error |-> "", attr |-> AttrBare(name)]
    ELSE IF value = <<>> THEN [error |-> "", attr |-> AttrPair(name, <<>>)]
    ELSE AttrDecoded(name, unescape(value))

AttrQuoted(raw) ==
    /\ Len(raw) >= 1
    /\ raw[1] \in {39 (* ' *), 34 (* quote *)}
    /\ raw[Len(raw)] = raw[1]

AttrRead(m, name, raw) ==
    AttrValued(m, name, IF AttrQuoted(raw) THEN SubSeq(raw, 2, Len(raw) - 1) ELSE raw)

AttrOf(s, k, m) == AttrRead(m, Lower(Slice(s, k, m.nameEnd)), Slice(s, m.start, m.valueEnd))

\* The loop of parse_starttag over the attributes from position k on.
RECURSIVE ScanAttrs(_, _, _, _)

ScanAttr(s, k, endpos, attrs, m, a) ==
    IF a.error # "" THEN [error |-> a.error, attrs |-> attrs, k |-> k]
    ELSE ScanAttrs(s, m.end, endpos, Append(attrs, a.attr))

ScanMatch(s, k, endpos, attrs, m) ==
    IF ~m.found THEN [error |-> "", attrs |-> attrs, k |-> k]
    ELSE ScanAttr(s, k, endpos, attrs, m, AttrOf(s, k, m))

ScanAttrs(s, k, endpos, attrs) ==
    IF k >= endpos THEN [error |-> "", attrs |-> attrs, k |-> k]
    ELSE ScanMatch(s, k, endpos, attrs, attrfind_tolerant(s, k))

CDATA_CONTENT_ELEMENTS ==
    { <<115, 99, 114, 105, 112, 116>> (* "script" *), <<115, 116, 121, 108, 101>> (* "style" *) }

\* What a step of goahead at a construct gives: the position k behind it
\* (negative: the construct is not complete), the handler calls made, the
\* CDATA mode afterwards, and the exception raised ("" for none).
Parsed(k, tokens, cdata) ==
    [k |-> k, tokens |-> tokens, cdata_elem |-> cdata, error |-> "", stop |-> FALSE]

ParseError(error) ==
    [k |-> 0, tokens |-> <<>>, cdata_elem |-> None, error |-> error, stop |-> FALSE]

\* parse_starttag behind check_for_whole_start_tag, which gave endpos,
\* behind tagfind_tolerant, which gave m, behind the loop over the
\* attributes, which gave r, and with `end` the stripped rest of the tag.
StartTagEnded(s, i, cdata, endpos, tag, r, end) ==
    IF r.error # "" THEN ParseError(r.error)
    ELSE IF end \notin { <<62>> (* ">" *), <<47, 62>> (* "/>" *) }
    THEN Parsed(endpos, <<DataToken(Slice(s, i, endpos))>>, cdata)
    ELSE IF end = <<47, 62>> (* "/>" *)
    THEN Parsed(endpos, <<StartEndToken(tag, r.attrs)>>, cdata)
    ELSE Parsed(endpos, <<StartToken(tag, r.attrs)>>,
                IF tag \in CDATA_CONTENT_ELEMENTS THEN Some(tag) ELSE cdata)

StartTagListed(s, i, cdata, endpos, tag, r) ==
    StartTagEnded(s, i, cdata, endpos, tag, r, Strip(Slice(s, r.k, endpos)))

StartTagNamed(s, i, cdata, endpos, m) ==
    StartTagListed(s, i, cdata, endpos, Lower(Slice(s, i + 1, m.nameEnd)),
                   ScanAttrs(s, m.end, endpos, <<>>))

StartTagWhole(s, i, cdata, endpos) ==
    IF endpos < 0 THEN Parsed(endpos, <<>>, cdata)
    ELSE StartTagNamed(s, i, cdata, endpos, tagfind_tolerant(s, i + 1))

parse_starttag(s, i, cdata) == StartTagWhole(s, i, cdata, check_for_whole_start_tag(s, i))

\* [-.a-zA-Z0-9:_]: a character of the name of an end tag after its letter.
IsEndNameChar(c) ==
    IsAsciiLetter(c) \/ IsAsciiDigit(c) \/ c \in {45 (* - *), 46 (* . *), 58 (* : *), 95 (* _ *)}

\* endtagfind.match(s, i): </\s*([a-zA-Z][-.a-zA-Z0-9:_]*)\s*>
\* with a the start of the name, b its end and c the end of the second \s*.
EndtagClosed(s, a, b, c) ==
    IF c < Len(s) /\ At(s, c) = 62 (* > *)
    THEN [found |-> TRUE, start |-> a, nameEnd |-> b]
    ELSE NoMatch

EndtagNamed(s, a, b) ==
    EndtagClosed(s, a, b, SkipWhile(s, b, { cp \in Range(s) : IsSpace(cp) }))

EndtagStart(s, a) ==
    IF a < Len(s) /\ IsAsciiLetter(At(s, a))
    THEN EndtagNamed(s, a, SkipWhile(s, a + 1, { cp \in Range(s) : IsEndNameChar(cp) }))
    ELSE NoMatch

endtagfind(s, i) == EndtagStart(s, SkipWhile(s, i + 2, { cp \in Range(s) : IsSpace(cp) }))

\* The position behind the ">" found at gtpos, -1 without ">".
AfterGt(gtpos) == IF gtpos < 0 THEN -1 ELSE gtpos + 1

\* The position behind the ">" that ends a bogus comment, -1 without ">".
parse_bogus_comment(s, i) == AfterGt(find(s, 62 (* > *), i + 2))

\* parse_endtag behind the search for ">", found at gt, and behind
\* endtagfind, which gave m: with a match, the end tag of the element elem;
\* without one, outside CDATA mode, what tagfind_tolerant gives (nm).
ParseEndtagElement(s, i, cdata, gt, elem) ==
    IF cdata # None /\ Some(elem) # cdata
    THEN Parsed(gt + 1, <<DataToken(Slice(s, i, gt + 1))>>, cdata)
    ELSE Parsed(gt + 1, <<EndToken(elem)>>, None)

ParseEndtagTolerant(s, i, cdata, nm) ==
    IF ~nm.found
    THEN IF Slice(s, i, i + 3) = <<60, 47, 62>> (* "</>" *)
         THEN Parsed(i + 3, <<>>, cdata)
         ELSE Parsed(parse_bogus_comment(s, i), <<>>, cdata)
    ELSE Parsed(find(s, 62 (* > *), nm.end) + 1,
                <<EndToken(Lower(Slice(s, i + 2, nm.nameEnd)))>>, cdata)

ParseEndtagMatched(s, i, cdata, gt, m) ==
    IF ~m.found
    THEN IF cdata # None
         THEN Parsed(gt + 1, <<DataToken(Slice(s, i, gt + 1))>>, cdata)
         ELSE ParseEndtagTolerant(s, i, cdata, tagfind_tolerant(s, i + 2))
    ELSE ParseEndtagElement(s, i, cdata, gt, Lower(Slice(s, m.start, m.nameEnd)))

ParseEndtagEnded(s, i, cdata, gt) ==
    IF gt < 0 THEN Parsed(-1, <<>>, cdata)
    ELSE ParseEndtagMatched(s, i, cdata, gt, endtagfind(s, i))

parse_endtag(s, i, cdata) == ParseEndtagEnded(s, i, cdata, find(s, 62 (* > *), i + 1))

\* The end of the match at position p of "]" \s* "]" \s* ">" (brackets = 2),
\* "]" \s* ">" (brackets = 1) or, for a comment, of "--" \s* ">"
\* (brackets = 0); -1 when there is none.
CloseAt(s, p, first, r) ==
    IF startswith(s, first, p) /\ r < Len(s) /\ At(s, r) = 62 (* > *) THEN r + 1 ELSE -1

CloseSecond(s, p, brackets, first, q, space) ==
    CloseAt(s, p, first,
            IF brackets = 2
            THEN (IF q < Len(s) /\ At(s, q) = 93 (* ] *)
                  THEN SkipWhile(s, q + 1, space) ELSE Len(s))
            ELSE q)

CloseFirst(s, p, brackets, first, space) ==
    CloseSecond(s, p, brackets, first, SkipWhile(s, p + Len(first), space), space)

CloseEnd(s, p, brackets) ==
    CloseFirst(s, p, brackets,
               IF brackets = 0 THEN <<45, 45>> (* "--" *) ELSE <<93 (* ] *)>>,
               { cp \in Range(s) : IsSpace(cp) })

\* The end of the first such match from position i on.
SearchFirst(s, brackets, hits) ==
    IF hits = {} THEN -1 ELSE CloseEnd(s, Min(hits), brackets)

SearchClose(s, i, brackets) ==
    SearchFirst(s, brackets, { p \in i .. Len(s) - 1 : CloseEnd(s, p, brackets) >= 0 })

\* _markupbase.ParserBase.parse_comment
parse_comment(s, i) == SearchClose(s, i + 4, 0)

\* [-_.a-zA-Z0-9]
IsDeclNameChar(c) ==
    IsAsciiLetter(c) \/ IsAsciiDigit(c) \/ c \in {45 (* - *), 95 (* _ *), 46 (* . *)}

\* _markupbase.ParserBase._scan_name: the name and the position behind it
\* and the whitespace after it; j = -1 at the end of the buffer.
ScanNameSpaced(s, i, e, e2) ==
    IF e2 = Len(s) THEN [error |-> "", name |-> <<>>, j |-> -1]
    ELSE [error |-> "", name |-> Lower(Slice(s, i, e)), j |-> e2]

ScanNameEnd(s, i, e) ==
    ScanNameSpaced(s, i, e, SkipWhile(s, e, { cp \in Range(s) : IsSpace(cp) }))

_scan_name(s, i) ==
    IF i = Len(s) THEN [error |-> "", name |-> <<>>, j |-> -1]
    ELSE IF i < Len(s) /\ IsAsciiLetter(At(s, i))
    THEN ScanNameEnd(s, i, SkipWhile(s, i + 1, { cp \in Range(s) : IsDeclNameChar(cp) }))
    ELSE [error |-> "AssertionError", name |-> <<>>, j |-> -1]

\* The status keywords of a marked section that ends with "]]>".
StandardSections ==
    { <<116, 101, 109, 112>> (* "temp" *), <<99, 100, 97, 116, 97>> (* "cdata" *),
      <<105, 103, 110, 111, 114, 101>> (* "ignore" *),
      <<105, 110, 99, 108, 117, 100, 101>> (* "include" *),
      <<114, 99, 100, 97, 116, 97>> (* "rcdata" *) }

\* Those of a section of Microsoft Office, which ends with "]>".
OfficeSections ==
    { <<105, 102>> (* "if" *), <<101, 108, 115, 101>> (* "else" *),
      <<101, 110, 100, 105, 102>> (* "endif" *) }

\* _markupbase.ParserBase.parse_marked_section behind _scan_name, which
\* gave r.
MarkedSectionNamed(s, i, cdata, r) ==
    IF r.error # "" THEN ParseError(r.error)
    ELSE IF r.j < 0 THEN Parsed(r.j, <<>>, cdata)
    ELSE IF r.name \in StandardSections \cup OfficeSections
    THEN Parsed(SearchClose(s, i + 3, IF r.name \in StandardSections THEN 2 ELSE 1),
                <<>>, cdata)
    ELSE ParseError("AssertionError")

parse_marked_section(s, i, cdata) == MarkedSectionNamed(s, i, cdata, _scan_name(s, i + 3))

parse_html_declaration(s, i, cdata) ==
    IF Slice(s, i, i + 4) = <<60, 33, 45, 45>> (* "<!--" *)
    THEN Parsed(parse_comment(s, i), <<>>, cdata)
    ELSE IF Slice(s, i, i + 3) = <<60, 33, 91>> (* "<![" *)
    THEN parse_marked_section(s, i, cdata)
    ELSE IF Lower(Slice(s, i, i + 9)) = <<60, 33, 100, 111, 99, 116, 121, 112, 101>> (* "<!doctype" *)
    THEN Parsed(AfterGt(find(s, 62 (* > *), i + 9)), <<>>, cdata)
    ELSE Parsed(parse_bogus_comment(s, i), <<>>, cdata)

parse_pi(s, i) == AfterGt(find(s, 62 (* > *), i + 2))

\* The characters a letter of "script" or "style" matches when case is
\* ignored (re.I on str).
IgnoreCaseEquals(c, letter) ==
    IF letter = 115 (* s *) THEN c \in {115, 83, 383}
    ELSE IF letter = 105 (* i *) THEN c \in {105, 73, 304, 305}
    ELSE c \in {letter, letter - 32}

\* re.compile(r'</\s*%s\s*>' % elem, re.I).match(s, i), with j the end of
\* the first \s* and k the end of the second.
CdataNamed(s, elem, j, k) ==
    /\ j + Len(elem) <= Len(s)
    /\ \A m \in 1 .. Len(elem) : IgnoreCaseEquals(At(s, j + m - 1), elem[m])
    /\ k < Len(s)
    /\ At(s, k) = 62 (* > *)

CdataSpaced(s, elem, j, space) == CdataNamed(s, elem, j, SkipWhile(s, j + Len(elem), space))

CdataCloseIn(s, i, elem, space) == CdataSpaced(s, elem, SkipWhile(s, i + 2, space), space)

CdataCloseAt(s, i, elem) ==
    /\ startswith(s, <<60, 47>> (* "</" *), i)
    /\ CdataCloseIn(s, i, elem, { cp \in Range(s) : IsSpace(cp) })

\* self.interesting.search(s, i).start(), -1 without match: "&" or "<", in
\* CDATA mode the end tag of the element.
interesting(s, i, cdata) ==
    LET First(hits) == IF hits = {} THEN -1 ELSE Min(hits)
    IN  First({ p \in i .. Len(s) - 1 :
                  IF cdata = None THEN At(s, p) \in {38 (* & *), 60 (* < *)}
                  ELSE CdataCloseAt(s, p, cdata.value) })

\* [-.a-zA-Z0-9]
IsEntityNameChar(c) == IsAsciiLetter(c) \/ IsAsciiDigit(c) \/ c \in {45 (* - *), 46 (* . *)}

\* entityref.match(s, i): &([a-zA-Z][-.a-zA-Z0-9]*)[^a-zA-Z0-9].  At the end
\* of the input the name gives characters back up to its last "-" or ".",
\* which then ends the match.
entityref(s, i) ==
    IF i + 1 < Len(s) /\ IsAsciiLetter(At(s, i + 1))
    THEN LET Run(e) ==
                 IF e < Len(s) THEN [found |-> TRUE, nameEnd |-> e, end |-> e + 1]
                 ELSE LET Back(marks) ==
                              IF marks = {} THEN NoMatch
                              ELSE [found |-> TRUE, nameEnd |-> Max(marks), end |-> Max(marks) + 1]
                      IN  Back({ k \in i + 2 .. e - 1 : At(s, k) \in {45 (* - *), 46 (* . *)} })
         IN  Run(SkipWhile(s, i + 2, {cp \in Range(s) : IsEntityNameChar(cp)}))
    ELSE NoMatch

\* charref.match(s, i).end() for "&#" at i, -1 without match:
\* &#(?:[0-9]+|[xX][0-9a-fA-F]+)[^0-9a-fA-F]
charref(s, i) ==
    LET Run(e, least) ==
            IF e >= least /\ e < Len(s) /\ ~IsHexDigit(At(s, e)) THEN e + 1 ELSE -1
    IN  IF i + 2 < Len(s) /\ IsAsciiDigit(At(s, i + 2))
        THEN Run(SkipWhile(s, i + 2, {cp \in Range(s) : IsAsciiDigit(cp)}), i + 3)
        ELSE IF i + 2 < Len(s) /\ At(s, i + 2) \in {120 (* x *), 88 (* X *)}
        THEN Run(SkipWhile(s, i + 3, {cp \in Range(s) : IsHexDigit(cp)}), i + 4)
        ELSE -1

\* The position behind a reference that ends at k: the character that ended
\* the match is consumed only when it is ";".
AfterReference(s, k) == IF At(s, k - 1) = 59 (* ; *) THEN k ELSE k - 1

\* What goahead returns with: the handler calls made, self.rawdata,
\* self.cdata_elem, and the exception raised ("" for none).
Went(tokens, raw, cdata, error) ==
    [tokens |-> tokens, rawdata |-> raw, cdata_elem |-> cdata, error |-> error]

\* The end of goahead, reached at position i: with `end` the rest of the
\* text is data, unless a CDATA element is open.
GoEnd(s, i, cdata, end, tokens) ==
    IF end /\ i < Len(s) /\ cdata = None
    THEN Went(Append(tokens, DataToken(SliceFrom(s, i))), <<>>, cdata, "")
    ELSE Went(tokens, SliceFrom(s, i), cdata, "")

\* The construct that starts with the "<" at position i.
Markup(s, i, cdata) ==
    IF i + 1 < Len(s) /\ IsAsciiLetter(At(s, i + 1)) THEN parse_starttag(s, i, cdata)
    ELSE IF startswith(s, <<60, 47>> (* "</" *), i) THEN parse_endtag(s, i, cdata)
    ELSE IF startswith(s, <<60, 33, 45, 45>> (* "<!--" *), i)
    THEN Parsed(parse_comment(s, i), <<>>, cdata)
    ELSE IF startswith(s, <<60, 63>> (* "<?" *), i) THEN Parsed(parse_pi(s, i), <<>>, cdata)
    ELSE IF startswith(s, <<60, 33>> (* "<!" *), i) THEN parse_html_declaration(s, i, cdata)
    ELSE IF i + 1 < Len(s) THEN Parsed(i + 1, <<DataToken(<<60 (* < *)>>)>>, cdata)
    ELSE [Parsed(i, <<>>, cdata) EXCEPT !.stop = TRUE]

\* The text an incomplete construct at i is turned into at the end of the
\* input: up to and including the next ">", else up to the next "<", else
\* the "<" alone.
IncompleteEnd(s, i) ==
    IF find(s, 62 (* > *), i + 1) >= 0 THEN find(s, 62 (* > *), i + 1) + 1
    ELSE IF find(s, 60 (* < *), i + 1) >= 0 THEN find(s, 60 (* < *), i + 1)
    ELSE i + 1

\* How a pass of the while loop of goahead ends: with `break` (or an
\* exception) and what goahead then returns with, or with the position,
\* the CDATA mode and the handler calls the next pass starts from.
Break(went) == [done |-> TRUE, went |-> went, i |-> 0, cdata_elem |-> None, tokens |-> <<>>]

Continue(i, cdata, tokens) ==
    [done |-> FALSE, went |-> Went(<<>>, <<>>, None, ""), i |-> i, cdata_elem |-> cdata,
     tokens |-> tokens]

\* The second half of a pass of the while loop of goahead: the construct at
\* position i, where "<" or "&" stands.
GoStep(s, i, cdata, end, tokens) ==
    LET AtLt(r) ==
            IF r.error # "" THEN Break(Went(tokens \o r.tokens, s, cdata, r.error))
            ELSE IF r.stop THEN Break(GoEnd(s, i, cdata, end, tokens))
            ELSE IF r.k < 0
            THEN IF ~end THEN Break(GoEnd(s, i, r.cdata_elem, end, tokens \o r.tokens))
                 ELSE Continue(IncompleteEnd(s, i), r.cdata_elem,
                               Append(tokens \o r.tokens,
                                      DataToken(Slice(s, i, IncompleteEnd(s, i)))))
            ELSE Continue(r.k, r.cdata_elem, tokens \o r.tokens)
        AtCharref(e) ==
            IF e >= 0
            THEN Continue(AfterReference(s, e), cdata,
                          Append(tokens, CharToken(Slice(s, i + 2, e - 1))))
            ELSE IF find(s, 59 (* ; *), i) >= 0
            THEN Break(GoEnd(s, i + 2, cdata, end,
                             Append(tokens, DataToken(Slice(s, i, i + 2)))))
            ELSE Break(GoEnd(s, i, cdata, end, tokens))
        AtEntityref(m) ==
            IF m.found
            THEN Continue(AfterReference(s, m.end), cdata,
                          Append(tokens, EntityToken(Slice(s, i + 1, m.nameEnd))))
            ELSE IF i + 1 < Len(s) /\ (IsAsciiLetter(At(s, i + 1)) \/ At(s, i + 1) = 35 (* # *))
            THEN Break(GoEnd(s, IF end /\ Len(s) - i = 2 THEN i + 1 ELSE i, cdata, end, tokens))
            ELSE IF i + 1 < Len(s)
            THEN Continue(i + 1, cdata, Append(tokens, DataToken(<<38 (* & *)>>)))
            ELSE Break(GoEnd(s, i, cdata, end, tokens))
    IN  IF At(s, i) = 60 (* < *) THEN AtLt(Markup(s, i, cdata))
        ELSE IF startswith(s, <<38, 35>> (* "&#" *), i) THEN AtCharref(charref(s, i))
        ELSE IF At(s, i) = 38 (* & *) THEN AtEntityref(entityref(s, i))
        ELSE Break(Went(tokens, s, cdata, "AssertionError"))

\* The while loop of goahead from position i on: the text up to the next
\* construct, which stands at j, is data.
RECURSIVE GoLoop(_, _, _, _, _)

GoStepped(s, end, r) ==
    IF r.done THEN r.went ELSE GoLoop(s, r.i, r.cdata_elem, end, r.tokens)

GoFound(s, i, cdata, end, tokens, j) ==
    IF j < 0 /\ cdata # None THEN GoEnd(s, i, cdata, end, tokens)
    ELSE IF j < 0
    THEN GoEnd(s, Len(s), cdata, end, Append(tokens, DataToken(SliceFrom(s, i))))
    ELSE GoStepped(s, end,
                   GoStep(s, j, cdata, end,
                          IF i < j THEN Append(tokens, DataToken(Slice(s, i, j)))
                          ELSE tokens))

GoLoop(s, i, cdata, end, tokens) ==
    IF i >= Len(s) THEN GoEnd(s, i, cdata, end, tokens)
    ELSE GoFound(s, i, cdata, end, tokens, interesting(s, i, cdata))

\* HTMLParser.goahead(end) on self.rawdata = raw.
goahead(raw, cdata, end) == GoLoop(raw, 0, cdata, end, <<>>)

(***************************************************************************)
(* The selector matcher.  None is 0 for a node, <<>> for a tag (an empty   *)
(* tag segment is turned into None by parse_simple_selector) and           *)
(* hasNth = FALSE for nth_value.                                           *)
(***************************************************************************)
ChildIds(ns, n) == [i \in 1 .. Len(children(ns, n)) |-> children(ns, n)[i].id]

\* node.attrs.get("id") == element_id
IdIs(node, element_id) ==
    HasAttr(node.attrs, <<105, 100>> (* "id" *)) /\ AttrGet(node.attrs, <<105, 100>> (* "id" *)) = element_id

\* Mutant of find_by_id: the children are searched before the node itself.
RECURSIVE FindByIdChildrenFirst(_, _, _)
FindByIdChildrenFirst(ns, n, element_id) ==
    LET RECURSIVE First(_)
        First(kids) ==
            IF kids = <<>> THEN 0
            ELSE LET match == FindByIdChildrenFirst(ns, Head(kids), element_id)
                 IN  IF match # 0 THEN match ELSE First(Tail(kids))
        below == First(ChildIds(ns, n))
    IN  IF below # 0 THEN below
        ELSE IF IdIs(ns[n], element_id) THEN n ELSE 0

RECURSIVE find_by_id(_, _, _)
find_by_id(ns, n, element_id) ==
    LET RECURSIVE First(_)
        First(kids) ==
            IF kids = <<>> THEN 0
            ELSE LET match == find_by_id(ns, Head(kids), element_id)
                 IN  IF match # 0 THEN match ELSE First(Tail(kids))
    IN  IF IdIs(ns[n], element_id) THEN n ELSE First(ChildIds(ns, n))

NthPrefix == <<58, 110, 116, 104, 45, 99, 104, 105, 108, 100, 40>> (* ":nth-child(" *)

\* The position (0-based) where the digits that end s begin: Len(s) when s
\* does not end with a digit.  A digit is what \d matches in a str pattern,
\* a decimal digit of any script.
TrailingDigits(s) == SkipBack(s, Len(s), {cp \in Range(s) : IsDecimal(cp)}) + 1

\* re.search(r":nth-child\((\d+)\)$", part): whether it matches, where the
\* match starts (0-based) and the digits of group 1.  part is stripped, so $
\* is the end of part.
NthMatch(part) ==
    LET NoNth == [found |-> FALSE, start |-> 0, digits |-> <<>>]
        Before(inner, first) ==
            IF first < Len(inner) /\ EndsWith(Slice(inner, 0, first), NthPrefix)
            THEN [found |-> TRUE, start |-> first - Len(NthPrefix),
                  digits |-> SliceFrom(inner, first)]
            ELSE NoNth
        Inner(inner) == Before(inner, TrailingDigits(inner))
    IN  IF part # <<>> /\ part[Len(part)] = 41 (* rparen *)
        THEN Inner(SubSeq(part, 1, Len(part) - 1))
        ELSE NoNth

\* (tag, classes, nth_value) as parse_simple_selector returns them; raised
\* when int() raised ValueError instead.  nth is the magnitude of nth_value.
Selector(tag, classes, hasNth, nth) ==
    [tag |-> tag, classes |-> classes, hasNth |-> hasNth, nth |-> nth, raised |-> FALSE]

SelectorError ==
    [tag |-> <<>>, classes |-> <<>>, hasNth |-> FALSE, nth |-> 0, raised |-> TRUE]

parse_simple_selector(part0) ==
    LET Built(part1, m, nth, part2, segments) ==
            IF part1 = <<>> THEN Selector(<<>>, <<>>, FALSE, 0)
            ELSE IF m.found /\ ~nth.ok THEN SelectorError
            ELSE IF part2 = <<>> THEN Selector(<<>>, <<>>, m.found, nth.magnitude)
            ELSE Selector(segments[1],
                          SelectSeq(Tail(segments), LAMBDA seg : seg # <<>>),
                          m.found, nth.magnitude)
        Segmented(part1, m, nth, part2) == Built(part1, m, nth, part2, Split(part2, 46 (* . *)))
        Matched(part1, m) ==
            Segmented(part1, m,
                      IF m.found THEN int(m.digits, 10) ELSE IntResult(FALSE, 0),
                      Strip(IF m.found THEN SubSeq(part1, 1, m.start) ELSE part1))
        Stripped(part1) == Matched(part1, NthMatch(part1))
    IN  Stripped(Strip(part0))

match_node(node, tag, classes) ==
    IF tag # <<>> /\ node.tag # tag THEN FALSE
    ELSE \A i \in DOMAIN classes : classes[i] \in Range(class_list(node))

\* Mutant of NthIndex: the position is taken as 0-based.
NthIndexZeroBased(nth_value) == nth_value

\* index = nth_value - 1
NthIndex(nth_value) == nth_value - 1

\* Mutant of SkipsPart: an empty part is not skipped but parsed.
SkipsNoPart(part) == FALSE

\* `if not part: continue`
SkipsPart(part) == part = <<>>

\* The result of select_node where parse_simple_selector raised ValueError.
Raised == -1

\* One iteration of the loop of select_node over parts[1:]: the node the
\* step moves to, 0 where the code returns None, Raised where it raises.
SelectStep(ns, node, part) ==
    LET Step(sel, kids, index, matching) ==
            IF sel.raised THEN Raised
            ELSE IF sel.tag = <<>> /\ ~sel.hasNth THEN 0
            ELSE IF sel.hasNth
                 THEN IF sel.nth \in {TooBig, JustTooBig} THEN 0
                      ELSE IF ~(0 <= index /\ index < Len(kids)) THEN 0
                      ELSE IF sel.tag # <<>> /\ ns[kids[index + 1]].tag # sel.tag THEN 0
                      ELSE IF ~match_node(ns[kids[index + 1]], sel.tag, sel.classes) THEN 0
                      ELSE kids[index + 1]
                 ELSE IF matching = {} THEN 0
                      ELSE kids[CHOOSE i \in matching : \A j \in matching : i <= j]
        Among(sel, kids) ==
            Step(sel, kids, NthIndex(sel.nth),
                 { i \in DOMAIN kids : match_node(ns[kids[i]], sel.tag, sel.classes) })
    IN  Among(parse_simple_selector(part), ChildIds(ns, node))

RECURSIVE SelectSteps(_, _, _)
SelectSteps(ns, node, parts) ==
    IF parts = <<>> THEN node
    ELSE IF SkipsPart(Head(parts)) THEN SelectSteps(ns, node, Tail(parts))
    ELSE LET From(next) == IF next \in {0, Raised} THEN next
                           ELSE SelectSteps(ns, next, Tail(parts))
         IN  From(SelectStep(ns, node, Head(parts)))

SelectorParts(selector) ==
    LET Stripped(raw) == [i \in DOMAIN raw |-> Strip(raw[i])]
    IN  Stripped(Split(selector, 62 (* > *)))

\* The node find_by_id anchors select_node at, 0 when select_node returns
\* None before or right after the lookup.
SelectAnchor(ns, root, selector) ==
    LET Anchor(first) ==
            IF ~StartsWith(first, <<35 (* # *)>>) THEN 0
            ELSE find_by_id(ns, root, Tail(first))
    IN  Anchor(SelectorParts(selector)[1])

select_node(ns, root, selector) ==
    LET From(anchor) ==
            IF anchor = 0 THEN 0
            ELSE SelectSteps(ns, anchor, Tail(SelectorParts(selector)))
    IN  From(SelectAnchor(ns, root, selector))

(***************************************************************************)
(* The serializer.                                                         *)
(***************************************************************************)
\* node.attrs.get("id") in skip_ids
IdInSkip(node, skip_ids) ==
    /\ HasAttr(node.attrs, <<105, 100>> (* "id" *))
    /\ AttrGet(node.attrs, <<105, 100>> (* "id" *)) \in Range(skip_ids)

\* f" {name}=\"{value}\""
AttrText(attr) == <<32 (* space *)>> \o attr.name \o <<61, 34>> (* "="" *) \o attr.value \o <<34 (* quote *)>>

\* Mutant of EmittedAttrs: the id attribute is never emitted.
EmittedAttrsWithoutId(node, skip_ids) ==
    SelectSeq(node.attrs, LAMBDA a : a.name # <<105, 100>> (* "id" *))

\* The attributes the two comprehensions of render keep: for a void element
\* those with `name != "id" or value not in skip_ids`, for another element
\* all or none by `node.attrs.get("id") not in skip_ids`.
EmittedAttrs(node, skip_ids) ==
    IF node.tag \in VOID_TAGS
    THEN SelectSeq(node.attrs,
                   LAMBDA a : a.name # <<105, 100>> (* "id" *) \/ a.value \notin Range(skip_ids))
    ELSE IF ~IdInSkip(node, skip_ids) THEN node.attrs ELSE <<>>

OpenTag(node, skip_ids) ==
    <<60 (* < *)>> \o node.tag
        \o Concat([i \in DOMAIN EmittedAttrs(node, skip_ids) |->
                      AttrText(EmittedAttrs(node, skip_ids)[i])])
        \o <<62 (* > *)>>

\* Mutant of CloseTag: no end tag is written.
CloseTagNone(node) == <<>>

CloseTag(node) == <<60, 47>> (* "</" *) \o node.tag \o <<62 (* > *)>>

RECURSIVE render(_, _, _)

\* Mutant of RenderSkipped: an excluded element is unwrapped, its children
\* are still rendered.
RenderSkippedUnwrap(ns, n, skip_ids) ==
    Concat([i \in DOMAIN ns[n].contents |->
               IF ns[n].contents[i].isNode
               THEN render(ns, ns[n].contents[i].id, skip_ids)
               ELSE ns[n].contents[i].text])

\* What render returns for a node whose id is in skip_ids: "".
RenderSkipped(ns, n, skip_ids) == <<>>

\* The inner function render of render_inner_html.
render(ns, n, skip_ids) ==
    IF IdInSkip(ns[n], skip_ids) THEN RenderSkipped(ns, n, skip_ids)
    ELSE IF ns[n].tag \in VOID_TAGS
         THEN IF ns[n].tag = <<98, 114>> (* "br" *) THEN <<60, 98, 114, 62>> (* "<br>" *)
              ELSE OpenTag(ns[n], skip_ids)
         ELSE OpenTag(ns[n], skip_ids)
                \o Concat([i \in DOMAIN ns[n].contents |->
                              IF ns[n].contents[i].isNode
                              THEN render(ns, ns[n].contents[i].id, skip_ids)
                              ELSE ns[n].contents[i].text])
                \o CloseTag(ns[n])

render_inner_html(ns, n, skip_ids) ==
    Strip(Concat([i \in DOMAIN ns[n].contents |->
                     IF ns[n].contents[i].isNode
                     THEN render(ns, ns[n].contents[i].id, skip_ids)
                     ELSE ns[n].contents[i].text]))

(***************************************************************************)
(* parse_html on text.  HTMLParser.feed appends the text to raw and    *)
(* runs goahead, which calls the handlers for every complete construct and *)
(* keeps the rest in raw; close runs goahead once more with end set.   *)
(* A builder is the part of the parser the handlers change: the heap of    *)
(* nodes, the stack, the nodes made by handle_startendtag, and whether a   *)
(* handler raised.                                                         *)
(***************************************************************************)
Builder(ns, st, made, raised) ==
    [nodes |-> ns, stack |-> st, startend |-> made, raised |-> raised]

NewBuilder == Builder(<<Node(T_document, <<>>)>>, <<1>>, {}, FALSE)

\* The builder after the handler call for one token.
ApplyToken(builder, token) ==
    LET Started(r, made) == Builder(r.nodes, r.stack, made, FALSE)
        Text(text) ==
            Builder(add_text(builder.nodes, builder.stack[Len(builder.stack)], text),
                    builder.stack, builder.startend, FALSE)
        Char(r) ==
            IF r.raised
            THEN Builder(builder.nodes, builder.stack, builder.startend, TRUE)
            ELSE Text(r.text)
    IN  CASE token.kind = "starttag" ->
                Started(_start_node(builder.nodes, builder.stack, token.tag, token.attrs,
                                    StartTagSelfClosing(token.tag)),
                        builder.startend)
          [] token.kind = "startendtag" ->
                Started(_start_node(builder.nodes, builder.stack, token.tag, token.attrs, TRUE),
                        builder.startend \cup {Len(builder.nodes) + 1})
          [] token.kind = "endtag" ->
                Builder(builder.nodes,
                        EndTagStack(builder.nodes, builder.stack, token.tag),
                        builder.startend, FALSE)
          [] token.kind = "data" -> Text(token.data)
          [] token.kind = "entityref" -> Text(EntityText(token.data))
          [] token.kind = "charref" -> Char(Charref(token.data))

\* The handler calls of one goahead, in order, up to one that raises.
RECURSIVE ApplyTokens(_, _, _)
ApplyTokens(builder, tokens, k) ==
    IF k > Len(tokens) \/ builder.raised THEN builder
    ELSE ApplyTokens(ApplyToken(builder, tokens[k]), tokens, k + 1)

\* The parser after goahead went over raw: `went` is what goahead did,
\* `builder` what its handler calls left.  An exception leaves raw as it
\* was; handle_charref, the handler that can raise, runs outside a CDATA
\* element.
Fed(raw, went, builder) ==
    [builder |-> builder,
     rawdata |-> IF builder.raised THEN raw ELSE went.rawdata,
     cdata_elem |-> IF builder.raised THEN None ELSE went.cdata_elem,
     raised |-> builder.raised \/ went.error # ""]

GoAhead(builder, raw, cdata, end) ==
    LET Run(went) == Fed(raw, went, ApplyTokens(builder, went.tokens, 1))
    IN  Run(goahead(raw, cdata, end))

\* The heap of the tree parse_html(html) returns (the root is node 1), and
\* whether feed or close raised instead.
ParseHtml(html) ==
    LET Closed(fed) ==
            IF fed.raised THEN fed
            ELSE GoAhead(fed.builder, fed.rawdata, fed.cdata_elem, TRUE)
    IN  Closed(GoAhead(NewBuilder, html, None, FALSE))

\* parse_html(html): whether it raised, and the heap of the tree it returned
\* (no heap where it raised: nothing is returned).
Returned(fed) ==
    [raised |-> fed.raised, nodes |-> IF fed.raised THEN <<>> ELSE fed.builder.nodes]

parse_html(html) == Returned(ParseHtml(html))

(***************************************************************************)
(* The state of one parse.                                                 *)
(*   nodes     the Node objects, nodes[1] is parser.root                   *)
(*   stack     parser.stack, as indices into nodes                         *)
(*   startend  the nodes created by handle_startendtag                     *)
(*   status    "parsing", "closed" (parse_html returned the root) or       *)
(*             "raised" (a handler raised, parse_html did not return)      *)
(*   event     the last handler that ran, its tag or name, and how many    *)
(*             stack entries it popped                                     *)
(*   result    the last query on the returned tree                         *)
(***************************************************************************)
A_id == <<105, 100>> (* "id" *)

A_class == <<99, 108, 97, 115, 115>> (* "class" *)

A_src == <<115, 114, 99>> (* "src" *)

Event(op, tag, popped) == [op |-> op, tag |-> tag, popped |-> popped]

QueryResult(op, selector, anchor, node, skip, out) ==
    [op |-> op, selector |-> selector, anchor |-> anchor, node |-> node,
     skip |-> skip, out |-> out]

NoResult == QueryResult("none", <<>>, 0, 0, <<>>, <<>>)

\* A script that is not running.
NotRunning == [pc |-> "idle"]

\* The number of content entries of all nodes together.
EntryCount(ns) ==
    LET RECURSIVE Count(_)
        Count(i) == IF i = 0 THEN 0 ELSE Len(ns[i].contents) + Count(i - 1)
    IN  Count(Len(ns))

Init ==
    /\ nodes = <<Node(T_document, <<>>)>>
    /\ stack = <<1>>
    /\ startend = {}
    /\ status = "parsing"
    /\ event = Event("init", <<>>, 0)
    /\ result = NoResult
    /\ rawdata = <<>>
    /\ cdata_elem = None
    /\ download = NotRunning
    /\ pagination = NotRunning
    /\ batching = NotRunning

handle_starttag(tag, attrs) ==
    /\ status = "parsing"
    /\ LET r == _start_node(nodes, stack, tag, attrs, StartTagSelfClosing(tag))
       IN  nodes' = r.nodes /\ stack' = r.stack
    /\ event' = Event("starttag", tag, 0)
    /\ UNCHANGED <<scripts, buffer, startend, status, result>>

handle_startendtag(tag, attrs) ==
    /\ status = "parsing"
    /\ LET r == _start_node(nodes, stack, tag, attrs, TRUE)
       IN  nodes' = r.nodes /\ stack' = r.stack
    /\ startend' = startend \cup {Len(nodes) + 1}
    /\ event' = Event("startendtag", tag, 0)
    /\ UNCHANGED <<scripts, buffer, status, result>>

handle_endtag(tag) ==
    /\ status = "parsing"
    /\ stack' = EndTagStack(nodes, stack, tag)
    /\ event' = Event("endtag", tag, Len(stack) - Len(stack'))
    /\ UNCHANGED <<scripts, buffer, nodes, startend, status, result>>

handle_data(data) ==
    /\ status = "parsing"
    /\ nodes' = IF data # <<>> THEN add_text(nodes, stack[Len(stack)], data) ELSE nodes
    /\ event' = Event("data", <<>>, 0)
    /\ UNCHANGED <<scripts, buffer, stack, startend, status, result>>

handle_entityref(name) ==
    /\ status = "parsing"
    /\ nodes' = add_text(nodes, stack[Len(stack)], EntityText(name))
    /\ event' = Event("entityref", <<>>, 0)
    /\ UNCHANGED <<scripts, buffer, stack, startend, status, result>>

handle_charref(name) ==
    /\ status = "parsing"
    /\ LET r == Charref(name)
       IN  /\ nodes' = IF r.raised THEN nodes
                       ELSE add_text(nodes, stack[Len(stack)], r.text)
           /\ status' = IF r.raised THEN "raised" ELSE status
    /\ event' = Event("charref", <<>>, 0)
    /\ UNCHANGED <<scripts, buffer, stack, startend, result>>

\* goahead ran: the fields it and its handler calls leave.
Goes(fed) ==
    /\ nodes' = fed.builder.nodes
    /\ stack' = fed.builder.stack
    /\ startend' = fed.builder.startend
    /\ rawdata' = fed.rawdata
    /\ cdata_elem' = fed.cdata_elem

\* parser.feed(data)
feed(data) ==
    /\ status = "parsing"
    /\ LET Run(fed) ==
               /\ Goes(fed)
               /\ status' = IF fed.raised THEN "raised" ELSE status
       IN  Run(GoAhead(Builder(nodes, stack, startend, FALSE),
                       rawdata \o data, cdata_elem, FALSE))
    /\ event' = Event("feed", <<>>, 0)
    /\ UNCHANGED <<scripts, result>>

\* parser.close() and the return of parse_html.
Close ==
    /\ status = "parsing"
    /\ LET Run(fed) ==
               /\ Goes(fed)
               /\ status' = IF fed.raised THEN "raised" ELSE "closed"
       IN  Run(GoAhead(Builder(nodes, stack, startend, FALSE),
                       rawdata, cdata_elem, TRUE))
    /\ event' = Event("close", <<>>, 0)
    /\ UNCHANGED <<scripts, result>>

(***************************************************************************)
(* Spec: the tree builder under every token sequence.                      *)
(***************************************************************************)
ParseTags == {T_p, T_b, T_br}

ParseAttrs ==
    { <<>>,
      <<AttrPair(A_id, <<114 (* r *)>>), AttrBare(A_class), AttrPair(A_id, <<115 (* s *)>>)>> }

EndTags == ParseTags \cup {T_document}

DataRuns == { <<120 (* x *)>> }

EntityNames == { <<97, 109, 112>> (* "amp" *), <<122, 122, 122>> (* "zzz" *) }

\* 65 and 0x41: "A"; 0x110000: the first value that is no code point;
\* 2147483648 and 0xFFFFFFFFF: above the C int range.
CharrefNames ==
    { <<54, 53>> (* "65" *), <<120, 52, 49>> (* "x41" *),
      <<88, 49, 49, 48, 48, 48, 48>> (* "X110000" *),
      <<50, 49, 52, 55, 52, 56, 51, 54, 52, 56>> (* "2147483648" *),
      <<120, 70, 70, 70, 70, 70, 70, 70, 70, 70>> (* "xFFFFFFFFF" *) }

\* The chunks feed is called with: text before a start tag that is cut off,
\* its end; an end tag, an entity reference and a character reference cut
\* off, and their ends; a comment and a script element in two parts; a
\* marked section that is none; a self-closing tag, text and an end tag.
FeedChunks ==
    { <<120, 60, 112>> (* "x<p" *),
      <<62>> (* ">" *),
      <<60, 47, 112>> (* "</p" *),
      <<38, 97, 109>> (* "&am" *),
      <<112, 59>> (* "p;" *),
      <<38, 35, 54>> (* "&#6" *),
      <<53, 59, 121>> (* "5;y" *),
      <<60, 33, 45>> (* "<!-" *),
      <<45, 120, 45, 45, 62>> (* "-x-->" *),
      <<60, 115, 99, 114, 105, 112, 116, 62>> (* "<script>" *),
      <<60, 47, 115, 99, 114, 105, 112, 116, 62>> (* "</script>" *),
      <<60, 33, 91, 120, 93, 62>> (* "<![x]>" *),
      <<60, 98, 32, 105, 100, 61, 39, 114, 39, 47, 62, 120, 60, 47, 98, 62>> (* "<b id='r'/>x</b>" *) }

\* Whether feed left text it could not yet take, or the inside of a script
\* or style element: the next handler call then comes from feed or close.
Pending == rawdata # <<>> \/ cdata_elem # None

CanStart == EntryCount(nodes) < MaxEntries /\ ~Pending

CanText == EntryCount(nodes) < MaxEntries /\ ~Pending

CanRefer == EntryCount(nodes) < MaxRefEntries /\ ~Pending

StartTag ==
    /\ CanStart
    /\ \E tag \in ParseTags, attrs \in ParseAttrs : handle_starttag(tag, attrs)

StartEndTag ==
    /\ CanStart
    /\ \E tag \in ParseTags : handle_startendtag(tag, <<>>)

EndTag ==
    /\ ~Pending
    /\ \E tag \in EndTags : handle_endtag(tag)

Data ==
    /\ CanText
    /\ \E data \in DataRuns : handle_data(data)

EntityRef ==
    /\ CanRefer
    /\ \E name \in EntityNames : handle_entityref(name)

CharRef ==
    /\ CanRefer
    /\ \E name \in CharrefNames : handle_charref(name)

\* feed(chunk), called while the text not yet taken is within MaxRaw
\* characters; whatever the call leaves, or raises, is its outcome.
Feed ==
    /\ EntryCount(nodes) < MaxFeedEntries
    /\ Len(rawdata) <= MaxRaw
    /\ \E data \in FeedChunks : feed(data)

Next ==
    \/ StartTag
    \/ StartEndTag
    \/ EndTag
    \/ Data
    \/ EntityRef
    \/ CharRef
    \/ Feed
    \/ Close

Spec == Init /\ [][Next]_vars

(***************************************************************************)
(* SpecSelect: select_node on the tree parse_html returned.                *)
(***************************************************************************)
\* select_node(root, selector) on the returned tree; a behaviour makes one
\* query, queries change nothing.
Select(selector) ==
    /\ status = "closed"
    /\ result = NoResult
    /\ result' = QueryResult("select", selector,
                              SelectAnchor(nodes, 1, selector),
                              select_node(nodes, 1, selector), <<>>, <<>>)
    /\ UNCHANGED <<scripts, buffer, nodes, stack, startend, status, event>>

SelTags == {T_p, T_b}

SelAttrs ==
    { <<AttrPair(A_id, <<114 (* r *)>>)>>,
      <<AttrPair(A_class, <<107 (* k *)>>)>>,
      <<AttrPair(A_class, <<106, 32, 107>> (* "j k" *))>> }

Sep == <<32, 62, 32>> (* " > " *)

NthChild(digits) == NthPrefix \o digits \o <<41 (* rparen *)>>

\* A position of one decimal digit more than int() converts.
LongPosition == [k \in 1 .. MaxStrDigits + 1 |-> 49 (* 1 *)]

Selectors ==
    { <<35, 114>> (* "#r" *),
      <<35, 113>> (* "#q" *),
      <<114 (* r *)>>,
      <<35, 114>> (* "#r" *) \o Sep \o <<112 (* p *)>>,
      <<35, 114, 62, 98>> (* "#r>b" *),
      <<35, 114>> (* "#r" *) \o Sep \o <<112, 46, 107>> (* "p.k" *),
      <<35, 114>> (* "#r" *) \o Sep \o <<112, 46, 107, 46, 106>> (* "p.k.j" *),
      <<35, 114>> (* "#r" *) \o Sep \o <<46, 107>> (* ".k" *),
      <<35, 114>> (* "#r" *) \o Sep \o <<112 (* p *)>> \o NthChild(<<50 (* 2 *)>>),
      <<35, 114>> (* "#r" *) \o Sep \o NthChild(<<49 (* 1 *)>>),
      <<35, 114>> (* "#r" *) \o Sep \o NthChild(<<48 (* 0 *)>>),
      <<35, 114>> (* "#r" *) \o Sep \o <<98, 46, 107>> (* "b.k" *) \o NthChild(<<49 (* 1 *)>>),
      <<35, 114>> (* "#r" *) \o Sep \o <<112 (* p *)>> \o Sep \o <<98 (* b *)>>,
      <<35, 114>> (* "#r" *) \o Sep \o Sep \o <<112 (* p *)>>,
      <<35, 114>> (* "#r" *) \o Sep \o <<112 (* p *)>> \o Sep }

SelCanAdd == EntryCount(nodes) < SelMaxEntries

SelStartTag ==
    /\ SelCanAdd
    /\ \E tag \in SelTags, attrs \in SelAttrs : handle_starttag(tag, attrs)

SelEndTag == \E tag \in SelTags : handle_endtag(tag)

SelData ==
    /\ SelCanAdd
    /\ \E data \in DataRuns : handle_data(data)

SelSelect == \E selector \in Selectors : Select(selector)

NextSelect ==
    \/ SelStartTag
    \/ SelEndTag
    \/ SelData
    \/ Close
    \/ SelSelect

SpecSelect == Init /\ [][NextSelect]_vars

(***************************************************************************)
(* SpecRender: render_inner_html on a node of the tree parse_html          *)
(* returned.                                                               *)
(***************************************************************************)
\* render_inner_html(node, skip_ids=skip_ids); a behaviour makes one query.
Render(n, skip_ids) ==
    /\ status = "closed"
    /\ result = NoResult
    /\ result' = QueryResult("render", <<>>, 0, n, skip_ids,
                              render_inner_html(nodes, n, skip_ids))
    /\ UNCHANGED <<scripts, buffer, nodes, stack, startend, status, event>>

StartKind(tag, attrs) == [tag |-> tag, attrs |-> attrs]

RenKinds ==
    { StartKind(T_p, <<>>),
      StartKind(T_p, <<AttrPair(A_id, <<109 (* m *)>>)>>),
      StartKind(T_p, <<AttrPair(A_class, <<107 (* k *)>>), AttrPair(A_id, <<114 (* r *)>>)>>),
      StartKind(T_br, <<AttrPair(A_class, <<107 (* k *)>>)>>),
      StartKind(T_img, <<AttrPair(A_id, <<109 (* m *)>>)>>),
      StartKind(T_img, <<AttrPair(A_src, <<115 (* s *)>>), AttrPair(A_id, <<114 (* r *)>>)>>) }

RenData == { <<120 (* x *)>>, <<32 (* space *)>> }

SkipIds == { <<>>, << <<109 (* m *)>> >> }

RenCanAdd == EntryCount(nodes) < RenMaxEntries

RenStartTag ==
    /\ RenCanAdd
    /\ \E kind \in RenKinds : handle_starttag(kind.tag, kind.attrs)

RenEndTag == handle_endtag(T_p)

RenText ==
    /\ RenCanAdd
    /\ \E data \in RenData : handle_data(data)

RenRender == \E n \in 1 .. Len(nodes), skip_ids \in SkipIds : Render(n, skip_ids)

NextRender ==
    \/ RenStartTag
    \/ RenEndTag
    \/ RenText
    \/ Close
    \/ RenRender

SpecRender == Init /\ [][NextRender]_vars

(***************************************************************************)
(* Properties of the tree builder.                                         *)
(***************************************************************************)
NonRoot == 2 .. Len(nodes)

\* The places (parent, position) where node n occurs in a contents sequence.
Occurrences(n) ==
    { <<p, i>> \in (1 .. Len(nodes)) \X (1 .. MaxEntries + 1) :
        /\ i <= Len(nodes[p].contents)
        /\ nodes[p].contents[i].isNode
        /\ nodes[p].contents[i].id = n }

ChildSet(n) == { e.id : e \in { x \in Range(nodes[n].contents) : x.isNode } }

\* The nodes reachable from the nodes of S in at most k steps down.
RECURSIVE Below(_, _)
Below(S, k) ==
    IF k = 0 THEN S
    ELSE Below(S \cup UNION { ChildSet(n) : n \in S }, k - 1)

ProperDescendants(n) == Below(ChildSet(n), Len(nodes))

\* C1: parse_html returns the root for every input: no handler raises,
\* whatever the digits of a numeric character reference denote.
C1_ParseNeverRaises == status # "raised"

\* C2: an end tag named t pops the topmost open non-root element with tag t
\* and every entry above it; when no open non-root element has tag t the
\* stack stays as it was; the tree is not touched.
C2_EndTagPopsToMatch ==
    [][event'.op = "endtag" =>
        LET t == event'.tag
            open == { i \in 2 .. Len(stack) : nodes[stack[i]].tag = t }
        IN  /\ nodes' = nodes
            /\ IF open # {}
               THEN stack' = SubSeq(stack, 1, Max(open) - 1)
               ELSE stack' = stack]_vars

\* An end tag closed an element below the top: two entries were popped.
C2_Witness == event.op = "endtag" /\ event.popped = 2

\* C3: a node with a void tag, or created from a self-closing tag, has no
\* content.
C3_VoidAndSelfClosingEmpty ==
    \A n \in NonRoot :
        (nodes[n].tag \in VOID_TAGS \/ n \in startend) => nodes[n].contents = <<>>

\* A void node and a self-closed non-void node, each followed by a later
\* entry in its parent's contents.
C3_Witness ==
    /\ \E n \in NonRoot : \E o \in Occurrences(n) :
          /\ nodes[n].tag \in VOID_TAGS
          /\ n \notin startend
          /\ Len(nodes[o[1]].contents) > o[2]
    /\ \E n \in NonRoot : \E o \in Occurrences(n) :
          /\ nodes[n].tag \notin VOID_TAGS
          /\ n \in startend
          /\ Len(nodes[o[1]].contents) > o[2]

\* C4: the nodes form a tree under the root: every non-root node occurs
\* exactly once in exactly one contents sequence, the root in none, no node
\* is its own descendant, and every node is reachable from the root.
C4_TreeShape ==
    /\ \A n \in NonRoot : Cardinality(Occurrences(n)) = 1
    /\ Occurrences(1) = {}
    /\ \A n \in 1 .. Len(nodes) : n \notin ProperDescendants(n)
    /\ ProperDescendants(1) = NonRoot

\* Three elements, nested and side by side, after an end tag has popped.
C4_Witness ==
    /\ Len(nodes) = 4
    /\ \E n \in NonRoot : ChildSet(n) # {}
    /\ Len(children(nodes, 1)) = 2
    /\ event.op = "endtag"
    /\ event.popped > 0

(***************************************************************************)
(* Properties of select_node.                                              *)
(***************************************************************************)
\* The nodes of the subtree of n in pre-order depth-first document order.
RECURSIVE PreOrder(_)
PreOrder(n) ==
    LET RECURSIVE Each(_)
        Each(entries) ==
            IF entries = <<>> THEN <<>>
            ELSE (IF Head(entries).isNode THEN PreOrder(Head(entries).id) ELSE <<>>)
                 \o Each(Tail(entries))
    IN  <<n>> \o Each(nodes[n].contents)

\* The text of a selector before its first ">".
RECURSIVE UpToGt(_)
UpToGt(s) ==
    IF s = <<>> \/ Head(s) = 62 (* > *) THEN <<>> ELSE <<Head(s)>> \o UpToGt(Tail(s))

\* The direct element children of n, in document order.
ElementChildren(n) ==
    LET RECURSIVE Each(_)
        Each(entries) ==
            IF entries = <<>> THEN <<>>
            ELSE (IF Head(entries).isNode THEN <<Head(entries).id>> ELSE <<>>)
                 \o Each(Tail(entries))
    IN  Each(nodes[n].contents)

\* Node n has tag `tag` when one is given (<<>>: none) and every class token
\* of `classes` among the whitespace-separated tokens of its class attribute.
Satisfies(n, tag, classes) ==
    /\ tag # <<>> => nodes[n].tag = tag
    /\ classes \subseteq Range(class_list(nodes[n]))

\* The first direct element child of n that satisfies the constraint, 0 when
\* there is none.
FirstSatisfying(n, tag, classes) ==
    LET kids == ElementChildren(n)
        ok == { i \in DOMAIN kids : Satisfies(kids[i], tag, classes) }
    IN  IF ok = {} THEN 0 ELSE kids[Min(ok)]

\* The selectors of the model with one step after the anchor, as written:
\* the step's tag, class tokens and nth-child position (-1: no nth-child;
\* CIntMax stands for the position LongPosition, beyond every child).
Step(selector, tag, classes, nth) ==
    [selector |-> selector, tag |-> tag, classes |-> classes, nth |-> nth]

NthSteps ==
    { Step(<<35, 114>> (* "#r" *) \o Sep \o <<112 (* p *)>> \o NthChild(<<50 (* 2 *)>>), <<112 (* p *)>>, {}, 2),
      Step(<<35, 114>> (* "#r" *) \o Sep \o NthChild(<<49 (* 1 *)>>), <<>>, {}, 1),
      Step(<<35, 114>> (* "#r" *) \o Sep \o NthChild(<<48 (* 0 *)>>), <<>>, {}, 0),
      Step(<<35, 114>> (* "#r" *) \o Sep \o NthChild(LongPosition), <<>>, {}, CIntMax),
      Step(<<35, 114>> (* "#r" *) \o Sep \o <<98, 46, 107>> (* "b.k" *) \o NthChild(<<49 (* 1 *)>>),
           <<98 (* b *)>>, {<<107 (* k *)>>}, 1) }

PlainSteps ==
    { Step(<<35, 114>> (* "#r" *) \o Sep \o <<112 (* p *)>>, <<112 (* p *)>>, {}, -1),
      Step(<<35, 114, 62, 98>> (* "#r>b" *), <<98 (* b *)>>, {}, -1),
      Step(<<35, 114>> (* "#r" *) \o Sep \o <<112, 46, 107>> (* "p.k" *), <<112 (* p *)>>, {<<107 (* k *)>>}, -1),
      Step(<<35, 114>> (* "#r" *) \o Sep \o <<112, 46, 107, 46, 106>> (* "p.k.j" *),
           <<112 (* p *)>>, {<<107 (* k *)>>, <<106 (* j *)>>}, -1),
      Step(<<35, 114>> (* "#r" *) \o Sep \o <<46, 107>> (* ".k" *), <<>>, {<<107 (* k *)>>}, -1) }

\* The selectors of the model with an empty step, and the step that is left.
EmptySteps ==
    { Step(<<35, 114>> (* "#r" *) \o Sep \o Sep \o <<112 (* p *)>>, <<112 (* p *)>>, {}, -1),
      Step(<<35, 114>> (* "#r" *) \o Sep \o <<112 (* p *)>> \o Sep, <<112 (* p *)>>, {}, -1) }

\* C5: a selector whose first step is #identifier anchors at the first node
\* in pre-order document order whose id equals identifier; without such a
\* node, or without the leading #, select_node returns None.
C5_AnchorIsFirstInPreOrder ==
    result.op = "select" =>
        LET first == Strip(UpToGt(result.selector))
            order == PreOrder(1)
            hits == { i \in DOMAIN order : IdIs(nodes[order[i]], Tail(first)) }
        IN  /\ IF first # <<>> /\ Head(first) = 35 (* # *) /\ hits # {}
               THEN result.anchor = order[Min(hits)]
               ELSE result.anchor = 0
            /\ result.anchor = 0 => result.node = 0
            /\ first = result.selector => result.node = result.anchor

\* Two nodes carry the id; the anchor is the one that comes first in
\* document order although it lies deeper than the other.
C5_Witness ==
    /\ result.op = "select"
    /\ result.anchor # 0
    /\ result.anchor \notin ChildSet(1)
    /\ \E b \in ChildSet(1) : IdIs(nodes[b], <<114 (* r *)>>)

(***************************************************************************)
(* SpecPosition: select_node with the selectors of NthSteps, the position  *)
(* LongPosition among them, on the trees of at most PosMaxEntries entries. *)
(***************************************************************************)
PosMaxEntries == 2

PosCanAdd == EntryCount(nodes) < PosMaxEntries

PosStartTag ==
    /\ PosCanAdd
    /\ \E tag \in SelTags, attrs \in SelAttrs : handle_starttag(tag, attrs)

PosEndTag == \E tag \in SelTags : handle_endtag(tag)

PosData ==
    /\ PosCanAdd
    /\ \E data \in DataRuns : handle_data(data)

PosSelect == \E c \in NthSteps : Select(c.selector)

NextPosition ==
    \/ PosStartTag
    \/ PosEndTag
    \/ PosData
    \/ Close
    \/ PosSelect

SpecPosition == Init /\ [][NextPosition]_vars

\* C6: a step with :nth-child(N) moves to the N-th direct element child and
\* only if that child satisfies the step's tag and classes; otherwise the
\* selector resolves to None, no other child is tried.
C6_NthChildExact ==
    \A c \in NthSteps :
        (result.op = "select" /\ result.selector = c.selector /\ result.anchor # 0) =>
            LET kids == ElementChildren(result.anchor)
            IN  result.node =
                    IF /\ 1 <= c.nth
                       /\ c.nth <= Len(kids)
                       /\ Satisfies(kids[c.nth], c.tag, c.classes)
                    THEN kids[c.nth]
                    ELSE 0

\* p:nth-child(2) selected the second element child although the first
\* element child is a p as well.
C6_Witness ==
    /\ result.op = "select"
    /\ result.selector = <<35, 114>> (* "#r" *) \o Sep \o <<112 (* p *)>> \o NthChild(<<50 (* 2 *)>>)
    /\ result.node # 0
    /\ nodes[ElementChildren(result.anchor)[1]].tag = <<112 (* p *)>>

\* C7: a step without :nth-child that carries a tag and/or class tokens,
\* also one made of class tokens only, moves to the first direct child that
\* satisfies it and fails only when no direct child does.
C7_FirstMatchingChild ==
    \A c \in PlainSteps :
        (result.op = "select" /\ result.selector = c.selector /\ result.anchor # 0) =>
            result.node = FirstSatisfying(result.anchor, c.tag, c.classes)

\* C8 as claimed: a selector with an empty step resolves to None.
C8_EmptyStepIsInvalid ==
    \A c \in EmptySteps :
        (result.op = "select" /\ result.selector = c.selector) => result.node = 0

\* C8 as amended: an empty step is skipped; the selector resolves as it does
\* without the empty step.
C8_EmptyStepIsSkipped ==
    \A c \in EmptySteps :
        (result.op = "select" /\ result.selector = c.selector /\ result.anchor # 0) =>
            result.node = FirstSatisfying(result.anchor, c.tag, c.classes)

\* The selector "#r >  > p" resolved to a node.
C8_Witness ==
    /\ result.op = "select"
    /\ result.selector = <<35, 114>> (* "#r" *) \o Sep \o Sep \o <<112 (* p *)>>
    /\ result.node # 0

(***************************************************************************)
(* Properties of render_inner_html.                                        *)
(***************************************************************************)
\* The nodes render is called on when n is passed to render_inner_html: the
\* proper descendants of n.
Descendants(n) == ProperDescendants(n)

\* The excluded descendants of the rendered node.
ExcludedBelow(n, skip_ids) ==
    { d \in Descendants(n) : IdInSkip(nodes[d], skip_ids) }

\* The tree without the subtrees of the nodes whose id is in skip_ids.
Pruned(skip_ids) ==
    [i \in DOMAIN nodes |->
        [nodes[i] EXCEPT !.contents =
            SelectSeq(@, LAMBDA e : ~(e.isNode /\ IdInSkip(nodes[e.id], skip_ids)))]]

\* The markup of element n written out in full: every stored attribute in
\* stored order, the content, the closing tag; nothing for an excluded
\* element, no attribute for br, no content and closing tag for a void one.
RECURSIVE FullMarkup(_, _)
FullMarkup(n, skip_ids) ==
    LET node == nodes[n]
        open == <<60 (* < *)>> \o node.tag
                  \o Concat([i \in DOMAIN node.attrs |->
                                <<32 (* space *)>> \o node.attrs[i].name \o <<61, 34>> (* "="" *)
                                    \o node.attrs[i].value \o <<34 (* quote *)>>])
                  \o <<62 (* > *)>>
        inner == Concat([i \in DOMAIN node.contents |->
                            IF node.contents[i].isNode
                            THEN FullMarkup(node.contents[i].id, skip_ids)
                            ELSE node.contents[i].text])
    IN  IF HasAttr(node.attrs, A_id) /\ AttrGet(node.attrs, A_id) \in Range(skip_ids)
        THEN <<>>
        ELSE IF node.tag = T_br THEN <<60, 98, 114, 62>> (* "<br>" *)
        ELSE IF node.tag \in VOID_TAGS THEN open
        ELSE open \o inner \o <<60, 47>> (* "</" *) \o node.tag \o <<62 (* > *)>>

\* C9: a descendant whose id is in skip_ids contributes nothing, everything
\* else is rendered in document order: the output is the output for the
\* tree without the excluded subtrees, rendered with no exclusion.
C9_ExcludedSubtreeDropped ==
    result.op = "render" =>
        result.out = render_inner_html(Pruned(result.skip), result.node, <<>>)

\* An excluded element with content of its own, followed by a sibling that
\* is rendered.
C9_Witness ==
    /\ result.op = "render"
    /\ result.out # <<>>
    /\ \E d \in ExcludedBelow(result.node, result.skip) :
          /\ nodes[d].contents # <<>>
          /\ \E o \in Occurrences(d) : Len(nodes[o[1]].contents) > o[2]

\* C10: every rendered element other than br is emitted with all of its
\* stored attributes in stored order: the output is the full markup of the
\* children of the rendered node.
C10_AllAttributesEmitted ==
    result.op = "render" =>
        result.out =
            Strip(Concat([i \in DOMAIN nodes[result.node].contents |->
                             IF nodes[result.node].contents[i].isNode
                             THEN FullMarkup(nodes[result.node].contents[i].id,
                                             result.skip)
                             ELSE nodes[result.node].contents[i].text]))

\* With a non-empty skip_ids and an excluded element in the tree, an element
\* with an id and another attribute was rendered.
C10_Witness ==
    /\ result.op = "render"
    /\ result.skip # <<>>
    /\ ExcludedBelow(result.node, result.skip) # {}
    /\ \E d \in Descendants(result.node) :
          /\ HasAttr(nodes[d].attrs, A_id)
          /\ Len(nodes[d].attrs) = 2
          /\ OpenTag(nodes[d], <<>>) \in
                { SubSeq(result.out, i, j) :
                    i \in 1 .. Len(result.out), j \in 1 .. Len(result.out) }

(***************************************************************************)
(* C17.  The open-element stack is never empty, its bottom entry is the    *)
(* synthetic root (which no end tag pops, not even one named 'document'),  *)
(* and every entry above the bottom is a direct child of the entry         *)
(* immediately below it.                                                   *)
(***************************************************************************)
C17_StackIsRootedChain ==
    /\ Len(stack) >= 1
    /\ stack[1] = 1
    /\ \A i \in 2..Len(stack) : stack[i] \in ChildSet(stack[i - 1])

\* The end tag 'document' arrived while two elements were open, one inside
\* the other, and the root is still the bottom of the stack.
C17_Witness ==
    /\ event.op = "endtag"
    /\ event.tag = T_document
    /\ Len(stack) = 3
    /\ stack[1] = 1

(***************************************************************************)
(* The extraction helpers of src/extract_listing.py.  An Optional[str] is  *)
(* None or Some(value).  A behaviour of the specifications below parses a  *)
(* document, closes it and makes one call on the tree.                     *)
(***************************************************************************)
\* parse_html on documents of at most `bound` content entries, built from
\* the start tags `kinds`, the end tags `tags` and the text runs `texts`.
BuildStart(kinds, bound) ==
    /\ EntryCount(nodes) < bound
    /\ \E kind \in kinds : handle_starttag(kind.tag, kind.attrs)

BuildEnd(tags) == \E tag \in tags : handle_endtag(tag)

BuildText(texts, bound) ==
    /\ EntryCount(nodes) < bound
    /\ \E data \in texts : handle_data(data)

\* Mutant of iter_text: the node's own text runs only, not those of its
\* descendants.
IterTextOwnRuns(ns, n) ==
    LET own == SelectSeq(ns[n].contents, LAMBDA e : ~e.isNode)
    IN  [i \in DOMAIN own |-> own[i].text]

\* Node.iter_text: the text runs at and below node n, in document order.
RECURSIVE iter_text(_, _)
iter_text(ns, n) ==
    Concat([i \in DOMAIN ns[n].contents |->
               IF ns[n].contents[i].isNode
               THEN iter_text(ns, ns[n].contents[i].id)
               ELSE <<ns[n].contents[i].text>>])

\* "".join(node.iter_text())
JoinText(ns, n) == Concat(iter_text(ns, n))

\* re.sub(r"\s+", " ", value)
SubWS(value) ==
    LET marked == [i \in DOMAIN value |->
                      IF value[i] \notin WS THEN value[i]
                      ELSE IF i > 1 /\ value[i - 1] \in WS THEN -1
                      ELSE 32 (* space *)]
    IN  SelectSeq(marked, LAMBDA c : c # -1)

normalize_whitespace(value) == Strip(SubWS(value))

\* What a caller of select_node gets where parse_simple_selector raised
\* ValueError: the exception passes through extract_text and extract_list.
ValueError == [none |-> FALSE, raised |-> TRUE]

extract_text(ns, root, selector) ==
    LET TextOf(node) ==
            IF node = Raised THEN ValueError
            ELSE IF node = 0 THEN None
            ELSE Some(normalize_whitespace(JoinText(ns, node)))
    IN  TextOf(select_node(ns, root, selector))

(***************************************************************************)
(* SpecText: extract_text on the tree parse_html returned.                 *)
(***************************************************************************)
TextMaxEntries == 3

ExtractText(selector) ==
    /\ status = "closed"
    /\ result = NoResult
    /\ result' = QueryResult("extract_text", selector,
                             SelectAnchor(nodes, 1, selector),
                             select_node(nodes, 1, selector), <<>>,
                             extract_text(nodes, 1, selector))
    /\ UNCHANGED <<scripts, buffer, nodes, stack, startend, status, event>>

TextKinds ==
    { StartKind(T_p, <<AttrPair(A_id, <<114 (* r *)>>)>>), StartKind(T_b, <<>>) }

TextRuns ==
    { <<120 (* x *)>>, <<32, 10>> (* " \n" *), <<32, 120, 9, 32, 120>> (* " x\t x" *) }

TextSelectors == { <<35, 114>> (* "#r" *), <<35, 114>> (* "#r" *) \o Sep \o T_b, <<35, 113>> (* "#q" *) }

TextStartTag == BuildStart(TextKinds, TextMaxEntries)

TextEndTag == BuildEnd({T_p, T_b})

TextData == BuildText(TextRuns, TextMaxEntries)

TextExtract == \E selector \in TextSelectors : ExtractText(selector)

NextText ==
    \/ TextStartTag
    \/ TextEndTag
    \/ TextData
    \/ Close
    \/ TextExtract

SpecText == Init /\ [][NextText]_vars

\* The text runs of a list of content entries in document order, by
\* repeatedly replacing the first child entry by that child's contents.
RECURSIVE FlattenRuns(_)
FlattenRuns(entries) ==
    IF \A i \in DOMAIN entries : ~entries[i].isNode
    THEN Concat([i \in DOMAIN entries |-> entries[i].text])
    ELSE LET k == Min({ i \in DOMAIN entries : entries[i].isNode })
         IN  FlattenRuns(SubSeq(entries, 1, k - 1)
                         \o nodes[entries[k].id].contents
                         \o SubSeq(entries, k + 1, Len(entries)))

\* The words joined by single spaces.
RECURSIVE JoinWords(_)
JoinWords(words) ==
    IF words = <<>> THEN <<>>
    ELSE IF Len(words) = 1 THEN words[1]
    ELSE words[1] \o <<32 (* space *)>> \o JoinWords(Tail(words))

\* The text of node n as a reader sees it: its words, a single space apart.
ReadText(n) == JoinWords(SplitWS(FlattenRuns(nodes[n].contents)))

(***************************************************************************)
(* C14.  extract_text returns None exactly when the selector resolves to   *)
(* no node; otherwise it returns the text runs of the selected subtree in  *)
(* document order, concatenated, every whitespace run collapsed to one     *)
(* space and the ends trimmed: the empty string, not None, for a selected  *)
(* node without non-whitespace text.                                       *)
(***************************************************************************)
C14_ExtractTextNormalized ==
    result.op = "extract_text" =>
        /\ (result.out = None) <=> (result.node = 0)
        /\ result.node # 0 => result.out = Some(ReadText(result.node))

\* A selected node whose text lies in a descendant and holds an inner
\* whitespace run that was collapsed.
C14_Witness ==
    /\ result.op = "extract_text"
    /\ result.node # 0
    /\ result.out = Some(<<120, 32, 120>> (* "x x" *))
    /\ IterTextOwnRuns(nodes, result.node) = <<>>

\* A selected node with whitespace only yields the empty string.
C14_WitnessEmpty ==
    /\ result.op = "extract_text"
    /\ result.node # 0
    /\ JoinText(nodes, result.node) # <<>>
    /\ result.out = Some(<<>>)

(***************************************************************************)
(* SpecList: extract_list on the tree parse_html returned.                 *)
(***************************************************************************)
T_ul == <<117, 108>> (* "ul" *)

T_li == <<108, 105>> (* "li" *)

\* iter_descendants: the element descendants of n in pre-order.
RECURSIVE iter_descendants(_, _)
iter_descendants(ns, n) ==
    Concat([i \in DOMAIN ChildIds(ns, n) |->
               <<ChildIds(ns, n)[i]>> \o iter_descendants(ns, ChildIds(ns, n)[i])])

\* Mutant of ListCandidates: every descendant is a candidate item.
ListCandidatesDeep(ns, node) == iter_descendants(ns, node)

\* `for child in node.children` of extract_list.
ListCandidates(ns, node) == ChildIds(ns, node)

extract_list(ns, root, selector) ==
    LET text(child) == normalize_whitespace(JoinText(ns, child))
        Texts(items) == [i \in DOMAIN items |-> text(items[i])]
        Items(node) ==
            IF node = Raised THEN ValueError
            ELSE Texts(IF node = 0 THEN <<>>
                       ELSE SelectSeq(ListCandidates(ns, node),
                                      LAMBDA child : ns[child].tag = T_li /\ text(child) # <<>>))
    IN  Items(select_node(ns, root, selector))

ListMaxEntries == 5

ExtractList(selector) ==
    /\ status = "closed"
    /\ result = NoResult
    /\ result' = QueryResult("extract_list", selector,
                             SelectAnchor(nodes, 1, selector),
                             select_node(nodes, 1, selector), <<>>,
                             extract_list(nodes, 1, selector))
    /\ UNCHANGED <<scripts, buffer, nodes, stack, startend, status, event>>

ListKinds ==
    { StartKind(T_ul, <<AttrPair(A_id, <<114 (* r *)>>)>>), StartKind(T_li, <<>>) }

ListRuns == { <<120 (* x *)>>, <<32, 121>> (* " y" *) }

ListSelectors == { <<35, 114>> (* "#r" *), <<35, 113>> (* "#q" *) }

ListStartTag == BuildStart(ListKinds, ListMaxEntries)

ListEndTag == BuildEnd({T_ul, T_li})

ListData == BuildText(ListRuns, ListMaxEntries)

ListExtract == \E selector \in ListSelectors : ExtractList(selector)

NextList ==
    \/ ListStartTag
    \/ ListEndTag
    \/ ListData
    \/ Close
    \/ ListExtract

SpecList == Init /\ [][NextList]_vars

\* The positions, in the contents of node n, of the direct 'li' children
\* that read as non-empty text.
ItemPositions(n) ==
    { k \in DOMAIN nodes[n].contents :
        /\ nodes[n].contents[k].isNode
        /\ nodes[nodes[n].contents[k].id].tag = T_li
        /\ ReadText(nodes[n].contents[k].id) # <<>> }

(***************************************************************************)
(* C15.  extract_list returns the normalized text of exactly the direct    *)
(* children of the selected container that are 'li' elements with          *)
(* non-empty normalized text, in document order, the text of anything       *)
(* nested in such an 'li' included; an 'li' that is not a direct child is  *)
(* not an item; an absent container gives the empty list.                  *)
(***************************************************************************)
C15_ListIsDirectItems ==
    result.op = "extract_list" =>
        IF result.node = 0 THEN result.out = <<>>
        ELSE LET pos == ItemPositions(result.node)
             IN  /\ Len(result.out) = Cardinality(pos)
                 /\ \A k \in pos :
                        result.out[Cardinality({ j \in pos : j <= k })]
                            = ReadText(nodes[result.node].contents[k].id)

\* Two direct items with different texts, returned in document order, the
\* second one normalized.
C15_Witness ==
    /\ result.op = "extract_list"
    /\ result.out = << <<120 (* x *)>>, <<121 (* y *)>> >>
    /\ Cardinality(ItemPositions(result.node)) = 2

\* The container holds a non-'li' child with an 'li' with text inside, which
\* is not returned.
C15_WitnessNotDirect ==
    /\ result.op = "extract_list"
    /\ result.node # 0
    /\ result.out = <<>>
    /\ \E n \in Range(iter_descendants(nodes, result.node)) :
           /\ nodes[n].tag = T_li
           /\ ReadText(n) # <<>>

\* A direct 'li' whose text lies in an element nested in it is returned
\* with that text.
C15_WitnessNested ==
    /\ result.op = "extract_list"
    /\ result.out = <<<<120 (* x *)>>>>
    /\ \E k \in ItemPositions(result.node) :
           IterTextOwnRuns(nodes, nodes[result.node].contents[k].id) = <<>>

(***************************************************************************)
(* SpecCrumb: extract_breadcrumb on the tree parse_html returned.          *)
(***************************************************************************)
T_div == <<100, 105, 118>> (* "div" *)

\* "#vap-brdcrmb" and the id it names.
BreadcrumbId == <<118, 97, 112, 45, 98, 114, 100, 99, 114, 109, 98>> (* "vap-brdcrmb" *)

BreadcrumbSelector == <<35 (* # *)>> \o BreadcrumbId

Sentinel == <<107, 108, 101, 105, 110, 97, 110, 122, 101, 105, 103, 101, 110>> (* "kleinanzeigen" *)

\* " > ".join(parts)
RECURSIVE JoinParts(_)
JoinParts(parts) ==
    IF parts = <<>> THEN <<>>
    ELSE IF Len(parts) = 1 THEN parts[1]
    ELSE parts[1] \o <<32, 62, 32>> (* " > " *) \o JoinParts(Tail(parts))

\* The loop of extract_breadcrumb: the non-empty normalized texts of the
\* direct children.
BreadcrumbParts(ns, node) ==
    LET texts == [i \in DOMAIN ChildIds(ns, node) |->
                     normalize_whitespace(JoinText(ns, ChildIds(ns, node)[i]))]
    IN  SelectSeq(texts, LAMBDA text : text # <<>>)

extract_breadcrumb(ns, root) ==
    LET Joined(node, rest) ==
            IF node = 0 THEN None
            ELSE IF rest = <<>> THEN None
            ELSE Some(JoinParts(rest))
        Kept(node, parts) ==
            Joined(node, IF parts # <<>> /\ Lower(parts[1]) = Sentinel
                         THEN Tail(parts) ELSE parts)
        Crumbs(node) == Kept(node, BreadcrumbParts(ns, node))
    IN  Crumbs(select_node(ns, root, BreadcrumbSelector))

CrumbMaxEntries == 5

ExtractBreadcrumb ==
    /\ status = "closed"
    /\ result = NoResult
    /\ result' = QueryResult("extract_breadcrumb", BreadcrumbSelector,
                             SelectAnchor(nodes, 1, BreadcrumbSelector),
                             select_node(nodes, 1, BreadcrumbSelector), <<>>,
                             extract_breadcrumb(nodes, 1))
    /\ UNCHANGED <<scripts, buffer, nodes, stack, startend, status, event>>

CrumbKinds ==
    { StartKind(T_div, <<AttrPair(A_id, BreadcrumbId)>>), StartKind(T_b, <<>>) }

CrumbRuns == { <<120 (* x *)>>, <<75 (* K *)>> \o Tail(Sentinel) }

CrumbStartTag == BuildStart(CrumbKinds, CrumbMaxEntries)

CrumbEndTag == BuildEnd({T_div, T_b})

CrumbData == BuildText(CrumbRuns, CrumbMaxEntries)

NextCrumb ==
    \/ CrumbStartTag
    \/ CrumbEndTag
    \/ CrumbData
    \/ Close
    \/ ExtractBreadcrumb

SpecCrumb == Init /\ [][NextCrumb]_vars

\* One segment per direct child of node n: the text it reads as.
Segments(n) == [i \in DOMAIN ChildIds(nodes, n) |-> ReadText(ChildIds(nodes, n)[i])]

\* The segments kept: all but a sentinel that is the first segment, empty
\* segments left out.
KeptSegments(n) ==
    LET segs == Segments(n)
        rest == IF segs # <<>> /\ Lower(segs[1]) = Sentinel THEN Tail(segs) ELSE segs
    IN  SelectSeq(rest, LAMBDA seg : seg # <<>>)

(***************************************************************************)
(* C16.  extract_breadcrumb takes the normalized text of each direct child *)
(* of '#vap-brdcrmb' as a segment, drops the sentinel 'kleinanzeigen'      *)
(* (case-insensitive, exact) only when it is the text of the first direct  *)
(* child, joins the remaining non-empty segments with ' > ', and returns   *)
(* None when the container is missing or nothing remains.                  *)
(***************************************************************************)
C16_SentinelOnlyAsFirstChild ==
    result.op = "extract_breadcrumb" =>
        IF result.node = 0 THEN result.out = None
        ELSE IF KeptSegments(result.node) = <<>> THEN result.out = None
        ELSE result.out = Some(JoinParts(KeptSegments(result.node)))

\* Where the first direct child of the container has text, the claim's
\* reading and the code agree.
C16_AgreesWhenFirstChildHasText ==
    (/\ result.op = "extract_breadcrumb"
     /\ result.node # 0
     /\ Segments(result.node) # <<>>
     /\ Segments(result.node)[1] # <<>>)
        => result.out = IF KeptSegments(result.node) = <<>> THEN None
                        ELSE Some(JoinParts(KeptSegments(result.node)))

(***************************************************************************)
(* SpecImages: extract_images on the tree parse_html returned.             *)
(***************************************************************************)
\* "#viewad-product" and the id it names.
ProductId == <<118, 105, 101, 119, 97, 100, 45, 112, 114, 111, 100, 117, 99, 116>> (* "viewad-product" *)

ProductSelector == <<35 (* # *)>> \o ProductId

A_data_imgsrc == <<100, 97, 116, 97, 45, 105, 109, 103, 115, 114, 99>> (* "data-imgsrc" *)

\* The marker of a full-size image URL.
Marker == <<114, 117, 108, 101, 61, 36, 95, 53, 57>> (* "rule=$_59" *)

\* `sub in value`
Contains(value, sub) ==
    \E i \in 0 .. (Len(value) - Len(sub)) : SubSeq(value, i + 1, i + Len(sub)) = sub

\* node.attrs.get("data-imgsrc") or node.attrs.get("src") or "", stripped.
ImageUrl(node) ==
    Strip(IF HasAttr(node.attrs, A_data_imgsrc) /\ AttrGet(node.attrs, A_data_imgsrc) # <<>>
          THEN AttrGet(node.attrs, A_data_imgsrc)
          ELSE IF HasAttr(node.attrs, A_src) /\ AttrGet(node.attrs, A_src) # <<>>
          THEN AttrGet(node.attrs, A_src)
          ELSE <<>>)

\* Mutant of ImagesResult: both buckets are returned, the preferred first.
ImagesResultBoth(primary, fallback) == primary \o fallback

\* `return primary if primary else fallback`
ImagesResult(primary, fallback) == IF primary # <<>> THEN primary ELSE fallback

\* The loop of extract_images over the descendants still to visit.
RECURSIVE ImagesLoop(_, _, _, _, _)
ImagesLoop(ns, todo, seen, primary, fallback) ==
    IF todo = <<>> THEN ImagesResult(primary, fallback)
    ELSE LET Visit(node, url) ==
                 IF node.tag # T_img \/ url = <<>> \/ url \in seen
                 THEN ImagesLoop(ns, Tail(todo), seen, primary, fallback)
                 ELSE IF Contains(url, Marker)
                 THEN ImagesLoop(ns, Tail(todo), seen \cup {url}, Append(primary, url), fallback)
                 ELSE ImagesLoop(ns, Tail(todo), seen \cup {url}, primary, Append(fallback, url))
         IN  Visit(ns[Head(todo)], ImageUrl(ns[Head(todo)]))

\* select_node(root, "#viewad-product") or root
ImagesContainer(ns, root) ==
    LET Or(container) == IF container # 0 THEN container ELSE root
    IN  Or(select_node(ns, root, ProductSelector))

extract_images(ns, root) ==
    ImagesLoop(ns, iter_descendants(ns, ImagesContainer(ns, root)), {}, <<>>, <<>>)

ImgMaxEntries == 4

ExtractImages ==
    /\ status = "closed"
    /\ result = NoResult
    /\ result' = QueryResult("extract_images", ProductSelector,
                             SelectAnchor(nodes, 1, ProductSelector),
                             select_node(nodes, 1, ProductSelector), <<>>,
                             extract_images(nodes, 1))
    /\ UNCHANGED <<scripts, buffer, nodes, stack, startend, status, event>>

\* Image URLs: two plain ones, one of them also with surrounding
\* whitespace, and two carrying the marker.
PlainUrl == <<97 (* a *)>>

MarkedUrl == <<98, 63>> (* "b?" *) \o Marker

ImgKinds ==
    { StartKind(T_div, <<AttrPair(A_id, ProductId)>>),
      StartKind(T_p, <<>>),
      StartKind(T_img, <<>>),
      StartKind(T_img, <<AttrPair(A_src, PlainUrl)>>),
      StartKind(T_img, <<AttrPair(A_src, <<32 (* space *)>> \o PlainUrl)>>),
      StartKind(T_img, <<AttrPair(A_data_imgsrc, MarkedUrl), AttrPair(A_src, PlainUrl)>>),
      StartKind(T_img, <<AttrPair(A_src, Marker)>>) }

ImgStartTag == BuildStart(ImgKinds, ImgMaxEntries)

ImgEndTag == BuildEnd({T_div, T_p})

NextImages ==
    \/ ImgStartTag
    \/ ImgEndTag
    \/ Close
    \/ ExtractImages

SpecImages == Init /\ [][NextImages]_vars

\* The scope of the image search: the product container, or the root when
\* the document has none.
Scope == IF result.node # 0 THEN result.node ELSE 1

\* The 'img' elements of the scope that carry a URL.
ScopeImages ==
    { n \in ProperDescendants(Scope) : nodes[n].tag = T_img /\ ImageUrl(nodes[n]) # <<>> }

CollectedUrls == { ImageUrl(nodes[n]) : n \in ScopeImages }

MarkedUrls == { url \in CollectedUrls : Contains(url, Marker) }

(***************************************************************************)
(* C13.  extract_images returns all distinct URLs carrying the marker      *)
(* 'rule=$_59' if the scope holds one, and otherwise all distinct URLs     *)
(* without it; the result has no duplicate and never holds both a marked   *)
(* and an unmarked URL.                                                    *)
(***************************************************************************)
C13_ImagesNeverMixed ==
    result.op = "extract_images" =>
        /\ Range(result.out) = IF MarkedUrls # {} THEN MarkedUrls ELSE CollectedUrls
        /\ Len(result.out) = Cardinality(Range(result.out))
        /\ ~ \E u, v \in Range(result.out) : Contains(u, Marker) /\ ~Contains(v, Marker)

\* The product container holds a plain URL and a marked URL that occurs
\* twice; the marked URL alone is returned, once.
C13_Witness ==
    /\ result.op = "extract_images"
    /\ result.node # 0
    /\ CollectedUrls \ MarkedUrls # {}
    /\ Cardinality({ n \in ScopeImages : Contains(ImageUrl(nodes[n]), Marker) }) = 2
    /\ result.out = <<MarkedUrl>>

(***************************************************************************)
(* build_listing.  A dict is the sequence of its [key, value] entries in   *)
(* insertion order.                                                        *)
(***************************************************************************)
TitleSelector ==
    <<35, 118, 105, 101, 119, 97, 100, 45, 116, 105, 116, 108, 101>> (* "#viewad-title" *)

\* "#viewad-details > div > ul:nth-child(<ul>) > li:nth-child(<li>) > span"
DetailsSelector(ul, li) ==
    <<35, 118, 105, 101, 119, 97, 100, 45, 100, 101, 116, 97, 105, 108,
      115, 32, 62, 32, 100, 105, 118, 32, 62, 32, 117, 108>> (* "#viewad-details > div > ul" *)
    \o NthChild(<<ul>>) \o Sep \o T_li \o NthChild(<<li>>) \o Sep \o <<115, 112, 97, 110>> (* "span" *)

fahrzeug_fields ==
    <<
       [key |-> "title", selector |-> TitleSelector],
       [key |-> "marke", selector |-> DetailsSelector(49 (* 1 *), 49 (* 1 *))],
       [key |-> "modell", selector |-> DetailsSelector(49 (* 1 *), 50 (* 2 *))],
       [key |-> "kilometerstand", selector |-> DetailsSelector(49 (* 1 *), 51 (* 3 *))],
       [key |-> "fahrzeugzustand", selector |-> DetailsSelector(49 (* 1 *), 52 (* 4 *))],
       [key |-> "erstzulassung", selector |-> DetailsSelector(49 (* 1 *), 53 (* 5 *))],
       [key |-> "kraftstoffart", selector |-> DetailsSelector(49 (* 1 *), 54 (* 6 *))],
       [key |-> "leistung", selector |-> DetailsSelector(49 (* 1 *), 55 (* 7 *))],
       [key |-> "getriebe", selector |-> DetailsSelector(50 (* 2 *), 49 (* 1 *))],
       [key |-> "fahrzeugtyp", selector |-> DetailsSelector(50 (* 2 *), 50 (* 2 *))],
       [key |-> "anzahl_tueren", selector |-> DetailsSelector(50 (* 2 *), 51 (* 3 *))],
       [key |-> "umweltplakette", selector |-> DetailsSelector(50 (* 2 *), 52 (* 4 *))],
       [key |-> "schadstoffklasse", selector |-> DetailsSelector(50 (* 2 *), 53 (* 5 *))],
       [key |-> "aussenfarbe", selector |-> DetailsSelector(50 (* 2 *), 54 (* 6 *))],
       [key |-> "material_innenausstattung", selector |-> DetailsSelector(50 (* 2 *), 55 (* 7 *))]
    >>

PriceSelector ==
    <<35, 118, 105, 101, 119, 97, 100, 45, 112, 114, 105, 99, 101>> (* "#viewad-price" *)

ConfigurationSelector ==
    <<35, 118, 105, 101, 119, 97, 100, 45, 99, 111, 110, 102, 105, 103,
      117, 114, 97, 116, 105, 111, 110, 32, 62, 32, 100, 105, 118, 32,
      62, 32, 117, 108>> (* "#viewad-configuration > div > ul" *)

DescriptionSelector ==
    <<35, 118, 105, 101, 119, 97, 100, 45, 100, 101, 115, 99, 114, 105,
      112, 116, 105, 111, 110, 45, 116, 101, 120, 116>> (* "#viewad-description-text" *)

MobileLinkId ==
    <<109, 111, 98, 105, 108, 101, 45, 108, 105, 110, 107>> (* "mobile-link" *)

AdIdSelector ==
    <<35, 118, 105, 101, 119, 97, 100, 45, 97, 100, 45, 105, 100, 45,
      98, 111, 120, 32, 62, 32, 117, 108, 32, 62, 32, 108, 105, 58,
      110, 116, 104, 45, 99, 104, 105, 108, 100, 40, 50, 41>> (* "#viewad-ad-id-box > ul > li:nth-child(2)" *)

\* "#viewad-contact > div > ul > li:nth-child(1)"
ContactItem ==
    <<35, 118, 105, 101, 119, 97, 100, 45, 99, 111, 110, 116, 97, 99,
      116, 32, 62, 32, 100, 105, 118, 32, 62, 32, 117, 108, 32, 62,
      32, 108, 105, 58, 110, 116, 104, 45, 99, 104, 105, 108, 100, 40,
      49, 41>> (* "#viewad-contact > div > ul > li:nth-child(1)" *)

verkaeufer_fields ==
    << [key |-> "name",
        selector |-> ContactItem \o
            <<32, 62, 32, 115, 112, 97, 110, 32, 62, 32, 115, 112,
              97, 110, 46, 116, 101, 120, 116, 45, 98, 111, 100, 121,
              45, 114, 101, 103, 117, 108, 97, 114, 45, 115, 116, 114,
              111, 110, 103, 46, 116, 101, 120, 116, 45, 102, 111, 114,
              99, 101, 45, 108, 105, 110, 101, 98, 114, 101, 97, 107,
              46, 117, 115, 101, 114, 112, 114, 111, 102, 105, 108, 101,
              45, 118, 105, 112, 32, 62, 32, 97>> (* " > span > span.text-body-regular-strong.text-force-linebreak.userprofile-vip > a" *)],
       [key |-> "nutzertyp",
        selector |-> ContactItem \o
            <<32, 62, 32, 115, 112, 97, 110, 32, 62, 32, 115, 112,
              97, 110, 58, 110, 116, 104, 45, 99, 104, 105, 108, 100,
              40, 50, 41, 32, 62, 32, 115, 112, 97, 110>> (* " > span > span:nth-child(2) > span" *)],
       [key |-> "aktiv_seit",
        selector |-> ContactItem \o
            <<32, 62, 32, 115, 112, 97, 110, 32, 62, 32, 115, 112,
              97, 110, 58, 110, 116, 104, 45, 99, 104, 105, 108, 100,
              40, 51, 41, 32, 62, 32, 115, 112, 97, 110>> (* " > span > span:nth-child(3) > span" *)] >>

UserIdSelector ==
    ContactItem \o <<32, 62, 32, 105, 32, 62, 32, 97>> (* " > i > a" *)

StreetSelector ==
    <<35, 115, 116, 114, 101, 101, 116, 45, 97, 100, 100, 114, 101, 115,
      115>> (* "#street-address" *)

LocalitySelector ==
    <<35, 118, 105, 101, 119, 97, 100, 45, 108, 111, 99, 97, 108, 105,
      116, 121>> (* "#viewad-locality" *)

A_href == <<104, 114, 101, 102>> (* "href" *)

\* str.replace(old, new): the occurrences of old, left to right, not
\* overlapping.
RECURSIVE Replace(_, _, _)
Replace(value, old, new) ==
    IF Len(value) < Len(old) THEN value
    ELSE IF SubSeq(value, 1, Len(old)) = old
    THEN new \o Replace(SubSeq(value, Len(old) + 1, Len(value)), old, new)
    ELSE <<Head(value)>> \o Replace(Tail(value), old, new)

\* The digits a string starts with: the greedy \d+ at its start.
LeadingDigits(value) == Slice(value, 0, SkipWhile(value, 0, {cp \in Range(value) : IsDecimal(cp)}))

\* re.search(r"userId=(\d+)", href): group 1 of the leftmost match, <<>>
\* when there is none.
UserIdMatch(href) ==
    LET key == <<117, 115, 101, 114, 73, 100, 61>> (* "userId=" *)
        hits == { i \in 0 .. Len(href) - Len(key) - 1 :
                    startswith(href, key, i) /\ IsDecimal(At(href, i + Len(key))) }
    IN  IF hits = {} THEN <<>>
        ELSE LeadingDigits(SliceFrom(href, Min(hits) + Len(key)))

extract_userid(ns, root) ==
    LET Id(node, match, text) ==
            IF node = 0 THEN None
            ELSE IF match # <<>> THEN Some(match)
            ELSE IF text # <<>> THEN Some(text)
            ELSE None
        Href(node) ==
            IF HasAttr(ns[node].attrs, A_href) THEN AttrGet(ns[node].attrs, A_href) ELSE <<>>
        Link(node) == Id(node, UserIdMatch(Href(node)), normalize_whitespace(JoinText(ns, node)))
    IN  Link(select_node(ns, root, UserIdSelector))

\* str.rstrip(",")
RStripComma(value) == Slice(value, 0, SkipBack(value, Len(value), {x \in Range(value) : x = 44 (* , *)}) + 1)

extract_location(ns, root) ==
    LET truthy(x) == ~x.none /\ x.value # <<>>
        Place(street, locality) ==
            IF truthy(street) /\ truthy(locality)
            THEN Some(street.value \o <<44, 32>> (* ", " *) \o locality.value)
            ELSE IF truthy(street) THEN street ELSE locality
        Street(found) ==
            Place(IF ~found.none /\ found.value # <<>>
                  THEN Some(RStripComma(found.value)) ELSE found,
                  extract_text(ns, root, LocalitySelector))
    IN  Street(extract_text(ns, root, StreetSelector))

Entry(key, value) == [key |-> key, value |-> value]

\* An entry for an Optional value that is not None.
EntryIfSome(key, optional) ==
    IF optional.none THEN <<>> ELSE <<Entry(key, optional.value)>>

\* The loop over fahrzeug_fields: one entry per selector that resolved.
RECURSIVE FieldEntries(_, _, _)
FieldEntries(ns, root, fields) ==
    IF fields = <<>> THEN <<>>
    ELSE EntryIfSome(Head(fields).key, extract_text(ns, root, Head(fields).selector))
         \o FieldEntries(ns, root, Tail(fields))

\* value[len("Aktiv seit "):] where the value starts with "aktiv seit ",
\* whatever its case.
AktivSeit(value) ==
    IF StartsWith(Lower(value), <<97, 107, 116, 105, 118, 32, 115, 101, 105, 116, 32>> (* "aktiv seit " *))
    THEN SubSeq(value, 12, Len(value))
    ELSE value

\* The loop over verkaeufer_fields.
RECURSIVE SellerEntries(_, _, _)
SellerEntries(ns, root, fields) ==
    IF fields = <<>> THEN <<>>
    ELSE LET Value(found) ==
                 IF found.none THEN found
                 ELSE IF Head(fields).key = "aktiv_seit" THEN Some(AktivSeit(found.value))
                 ELSE found
         IN  EntryIfSome(Head(fields).key,
                         Value(extract_text(ns, root, Head(fields).selector)))
             \o SellerEntries(ns, root, Tail(fields))

\* The description entry: the rendered markup with "<br />" and "<br/>"
\* replaced by "<br>".
DescriptionEntry(ns, root) ==
    LET Described(description_node) ==
            IF description_node = 0 THEN <<>>
            ELSE <<Entry("Beschreibung",
                         Replace(Replace(render_inner_html(ns, description_node, <<MobileLinkId>>),
                                         <<60, 98, 114, 32, 47, 62>> (* "<br />" *), <<60, 98, 114, 62>> (* "<br>" *)),
                                 <<60, 98, 114, 47, 62>> (* "<br/>" *), <<60, 98, 114, 62>> (* "<br>" *)))>>
    IN  Described(select_node(ns, root, DescriptionSelector))

\* An entry for a section that is not empty.
SectionEntry(key, section) ==
    IF section # <<>> THEN <<Entry(key, section)>> ELSE <<>>

build_listing(ns, root) ==
    LET Preis(preis_wert) ==
            IF preis_wert.none THEN <<>>
            ELSE <<Entry("preis", <<Entry("wert", preis_wert.value)>>)>>
        fahrzeug ==
            FieldEntries(ns, root, fahrzeug_fields)
            \o Preis(extract_text(ns, root, PriceSelector))
            \o <<Entry("ausstattung", extract_list(ns, root, ConfigurationSelector))>>
            \o DescriptionEntry(ns, root)
            \o <<Entry("images", extract_images(ns, root))>>
        anzeige ==
            EntryIfSome("kategorie", extract_breadcrumb(ns, root))
            \o EntryIfSome("anzeige_id", extract_text(ns, root, AdIdSelector))
        verkaeufer ==
            SellerEntries(ns, root, verkaeufer_fields)
            \o EntryIfSome("userid", extract_userid(ns, root))
            \o EntryIfSome("ort", extract_location(ns, root))
    IN  SectionEntry("fahrzeug", fahrzeug)
        \o SectionEntry("anzeige", anzeige)
        \o SectionEntry("verkaeufer", verkaeufer)

(***************************************************************************)
(* SpecListing: build_listing on the tree parse_html returned.             *)
(***************************************************************************)
ListingMaxEntries == 3

BuildListing ==
    /\ status = "closed"
    /\ result = NoResult
    /\ result' = QueryResult("build_listing", <<>>, 0, 1, <<>>, build_listing(nodes, 1))
    /\ UNCHANGED <<scripts, buffer, nodes, stack, startend, status, event>>

ListingKinds ==
    { StartKind(T_p, <<AttrPair(A_id, Tail(TitleSelector))>>),
      StartKind(T_div, <<AttrPair(A_id, BreadcrumbId)>>),
      StartKind(T_p, <<AttrPair(A_id, Tail(LocalitySelector))>>),
      StartKind(T_b, <<>>) }

ListingStartTag == BuildStart(ListingKinds, ListingMaxEntries)

ListingEndTag == BuildEnd({T_p, T_div, T_b})

ListingData == BuildText({<<120 (* x *)>>}, ListingMaxEntries)

NextListing ==
    \/ ListingStartTag
    \/ ListingEndTag
    \/ ListingData
    \/ Close
    \/ BuildListing

SpecListing == Init /\ [][NextListing]_vars

\* The source selectors of each section.
SectionSelectors(key) ==
    IF key = "fahrzeug"
    THEN { fahrzeug_fields[i].selector : i \in DOMAIN fahrzeug_fields }
         \cup { PriceSelector, ConfigurationSelector, DescriptionSelector, ProductSelector }
    ELSE IF key = "anzeige"
    THEN { BreadcrumbSelector, AdIdSelector }
    ELSE { verkaeufer_fields[i].selector : i \in DOMAIN verkaeufer_fields }
         \cup { UserIdSelector, StreetSelector, LocalitySelector }

\* The section has a source: one of its selectors resolves to a node, or
\* (for the images, whose scope falls back to the root) the document holds
\* an image URL.
HasSource(key) ==
    \/ \E selector \in SectionSelectors(key) : select_node(nodes, 1, selector) # 0
    \/ key = "fahrzeug" /\ extract_images(nodes, 1) # <<>>

(***************************************************************************)
(* C12.  build_listing emits a section only when one of the section's      *)
(* source selectors resolved to a node, and within a section no field      *)
(* whose value is empty for lack of a source: for a document in which      *)
(* every selector resolves to absence the mapping is empty.                *)
(***************************************************************************)
C12_OnlyMatchedSections ==
    result.op = "build_listing" =>
        /\ \A i \in DOMAIN result.out : HasSource(result.out[i].key)
        /\ (\A key \in {"fahrzeug", "anzeige", "verkaeufer"} : ~HasSource(key))
               => result.out = <<>>

\* Apart from the vehicle section, which is always emitted, a section is
\* present only when one of its selectors resolved.
C12_OtherSectionsOnlyMatched ==
    result.op = "build_listing" =>
        \A i \in DOMAIN result.out :
            result.out[i].key # "fahrzeug" => HasSource(result.out[i].key)

(***************************************************************************)
(* SpecRoundTrip: a document with fully balanced tags is parsed, its root  *)
(* is rendered without exclusions and the rendered text is parsed again.   *)
(***************************************************************************)
RtMaxEntries == 3

\* SpecRoundTrip: the content entries of the tree up to which text and
\* references are added.
RtMaxTextEntries == 2

\* render_inner_html(root) and parse_html on what it returned: the rendered
\* text, whether the second parse raised, and the tree it returned if not.
Reparsed(markup, parsed) ==
    [markup |-> markup, raised |-> parsed.raised, nodes |-> parsed.nodes]

ParsedAgain(markup) == Reparsed(markup, parse_html(markup))

RoundTrip ==
    /\ status = "closed"
    /\ result = NoResult
    /\ result' = QueryResult("roundtrip", <<>>, 0, 1, <<>>,
                             ParsedAgain(render_inner_html(nodes, 1, <<>>)))
    /\ UNCHANGED <<scripts, buffer, nodes, stack, startend, status, event>>

RtKinds ==
    { StartKind(T_b, <<AttrPair(A_class, <<107, 32, 106>> (* "k j" *)), AttrPair(A_id, <<114 (* r *)>>)>>),
      StartKind(T_br, <<>>),
      StartKind(T_br, <<AttrPair(A_class, <<107 (* k *)>>)>>),
      StartKind(T_img, <<AttrPair(A_src, <<115 (* s *)>>)>>),
      StartKind(T_p, <<AttrPair(A_class, <<97, 34, 98>> (* "a"b" *))>>),
      StartKind(T_p, <<AttrPair(A_class, <<38, 108, 116, 59>> (* "&lt;" *))>>) }

RtStartTag == BuildStart(RtKinds, RtMaxEntries)

\* A self-closing element: it is not opened, so no end tag belongs to it.
RtStartEndTag ==
    /\ EntryCount(nodes) < RtMaxEntries
    /\ handle_startendtag(T_p, <<AttrBare(A_class)>>)

\* The end tag of the innermost open element.
RtEndTag ==
    /\ Len(stack) >= 2
    /\ handle_endtag(nodes[stack[Len(stack)]].tag)

\* Text as it stands in the document; "#2147483648;" is what follows the
\* reference &amp; in the document "&amp;#2147483648;".
RtTexts ==
    { <<98, 62>> (* "b>" *),
      <<35, 50, 49, 52, 55, 52, 56, 51, 54, 52, 56, 59>> (* "#2147483648;" *) }

RtData == BuildText(RtTexts, RtMaxTextEntries)

\* The references &lt; and &amp;, which the builder decodes to the texts
\* "<" and "&".
RtEntityNames == { <<108, 116>> (* "lt" *), <<97, 109, 112>> (* "amp" *) }

RtEntityRef ==
    /\ EntryCount(nodes) < RtMaxTextEntries
    /\ \E name \in RtEntityNames : handle_entityref(name)

\* The reference &#2147483648;, on which the first parse raises: there is no
\* tree to render.
RtCharrefNames == { <<50, 49, 52, 55, 52, 56, 51, 54, 52, 56>> (* "2147483648" *) }

RtCharRef ==
    /\ EntryCount(nodes) < RtMaxTextEntries
    /\ \E name \in RtCharrefNames : handle_charref(name)

\* The end of the document, every element closed.
RtClose ==
    /\ stack = <<1>>
    /\ Close

NextRoundTrip ==
    \/ RtStartTag
    \/ RtStartEndTag
    \/ RtEndTag
    \/ RtData
    \/ RtEntityRef
    \/ RtCharRef
    \/ RtClose
    \/ RoundTrip

SpecRoundTrip == Init /\ [][NextRoundTrip]_vars

\* The element structure of the subtree of n in heap ns: tag, attribute
\* name/value pairs, and the element children in order.
RECURSIVE Shape(_, _)
Shape(ns, n) ==
    [tag |-> ns[n].tag,
     attrs |-> { <<a.name, a.value>> : a \in Range(ns[n].attrs) },
     kids |-> [i \in DOMAIN ChildIds(ns, n) |-> Shape(ns, ChildIds(ns, n)[i])]]

\* A line-break element that carries an attribute.
BrWithAttributes == \E n \in DOMAIN nodes : nodes[n].tag = T_br /\ nodes[n].attrs # <<>>

\* An attribute value that holds a double quote.
QuoteInValue ==
    \E n \in DOMAIN nodes : \E a \in Range(nodes[n].attrs) : 34 (* quote *) \in Range(a.value)

\* An attribute value that holds "&".
AmpInValue ==
    \E n \in DOMAIN nodes : \E a \in Range(nodes[n].attrs) : 38 (* & *) \in Range(a.value)

\* A text run that holds "<", or one that holds "&".
LtInText ==
    \E n \in DOMAIN nodes : \E e \in Range(nodes[n].contents) :
        ~e.isNode /\ 60 (* < *) \in Range(e.text)

AmpInText ==
    \E n \in DOMAIN nodes : \E e \in Range(nodes[n].contents) :
        ~e.isNode /\ 38 (* & *) \in Range(e.text)

\* Markup that render writes back as it was read, up to quoting.
Verbatim ==
    ~BrWithAttributes /\ ~QuoteInValue /\ ~AmpInValue /\ ~LtInText /\ ~AmpInText

\* The second parse returned a tree with the element structure of the first.
SameElements == ~result.out.raised /\ Shape(result.out.nodes, 1) = Shape(nodes, 1)

(***************************************************************************)
(* C11 as stated.  For markup with fully balanced tags, parsing, rendering *)
(* the root without exclusions and parsing the rendered text again gives a *)
(* tree with the same element nesting, tags and attribute content.         *)
(***************************************************************************)
C11_RoundTripKeepsElements ==
    result.op = "roundtrip" => SameElements

(***************************************************************************)
(* C11 amended.  The same, for markup parse_html returns a tree for, in    *)
(* which no line-break element carries an attribute (render writes every   *)
(* 'br' as the bare "<br>") and in which, after decoding, no text run      *)
(* holds "<" or "&" and no attribute value holds a double quote or "&"     *)
(* (render writes text and values verbatim, and the second parse reads     *)
(* them as markup and references again).                                   *)
(***************************************************************************)
C11_RoundTripKeepsElementsButBr ==
    (result.op = "roundtrip" /\ Verbatim) => SameElements

\* A round trip of a document with an element with two attributes, nested
\* in another one, and a bare line break.
C11_Witness ==
    /\ result.op = "roundtrip"
    /\ Verbatim
    /\ \E n \in DOMAIN nodes : nodes[n].tag = T_br
    /\ \E n \in DOMAIN nodes : Len(nodes[n].attrs) = 2 /\ n \notin ChildSet(1)
    /\ SameElements

(***************************************************************************)
(***************************************************************************)
(* src/fetch_listing.py: download_listing saves what it fetched under the  *)
(* name _suggest_filename derives from the URL, at the path _unique_path   *)
(* chooses.  The directory is the function `files` from the names of the   *)
(* files in it to their contents; the clock counts the seconds since       *)
(* 2024-01-01 00:00:00.                                                    *)
(***************************************************************************)
\* The parser is not used by the scripts modelled below.
ParserInit ==
    /\ nodes = <<Node(T_document, <<>>)>>
    /\ stack = <<1>>
    /\ startend = {}
    /\ status = "parsing"
    /\ event = Event("init", <<>>, 0)
    /\ result = NoResult
    /\ rawdata = <<>>
    /\ cdata_elem = None

parser == <<nodes, stack, startend, status, event, result, buffer>>

\* str.rstrip(c) for one character c.
RStripChar(value, c) == Slice(value, 0, SkipBack(value, Len(value), {x \in Range(value) : x = c}) + 1)

\* str.rfind(c) for one character c: -1 when s does not hold it.
rfind(s, c) ==
    LET hits == { j \in 0 .. Len(s) - 1 : At(s, j) = c }
    IN  IF hits = {} THEN -1 ELSE Max(hits)

(***************************************************************************)
(* urllib.parse.urlparse(url).path, or the ValueError urlparse raises.     *)
(***************************************************************************)
\* _WHATWG_C0_CONTROL_OR_SPACE, stripped from the start of the URL.
IsC0OrSpace(c) == 0 <= c /\ c <= 32

\* _UNSAFE_URL_BYTES_TO_REMOVE: tab, CR and LF are removed from the URL.
IsUnsafeUrlByte(c) == c \in {9, 13, 10}

\* scheme_chars
IsSchemeChar(c) == IsAsciiLetter(c) \/ IsAsciiDigit(c) \/ c \in {43 (* + *), 45 (* - *), 46 (* . *)}

uses_params ==
    { <<>> (* "" *),
      <<102, 116, 112>> (* "ftp" *),
      <<104, 100, 108>> (* "hdl" *),
      <<112, 114, 111, 115, 112, 101, 114, 111>> (* "prospero" *),
      <<104, 116, 116, 112>> (* "http" *),
      <<105, 109, 97, 112>> (* "imap" *),
      <<104, 116, 116, 112, 115>> (* "https" *),
      <<115, 104, 116, 116, 112>> (* "shttp" *),
      <<114, 116, 115, 112>> (* "rtsp" *),
      <<114, 116, 115, 112, 115>> (* "rtsps" *),
      <<114, 116, 115, 112, 117>> (* "rtspu" *),
      <<115, 105, 112>> (* "sip" *),
      <<115, 105, 112, 115>> (* "sips" *),
      <<109, 109, 115>> (* "mms" *),
      <<115, 102, 116, 112>> (* "sftp" *),
      <<116, 101, 108>> (* "tel" *) }

\* The characters above U+007F whose NFKC form holds one of "/?#@:", the
\* characters _checknetloc looks for in a normalized network location.
NfkcDelimiters ==
    { 8263, 8264, 8265, 8448, 8449, 8453, 8454, 10868, 65043, 65046, 65109,
      65110, 65119, 65131, 65283, 65295, 65306, 65311, 65312 }

\* IPv4Address._parse_octet accepts the text.
OctetOk(octet) ==
    /\ octet # <<>>
    /\ \A k \in DOMAIN octet : IsAsciiDigit(octet[k])
    /\ Len(octet) <= 3
    /\ (octet = <<48 (* 0 *)>> \/ octet[1] # 48 (* 0 *))
    /\ int(octet, 10).magnitude <= 255

\* IPv4Address(text) is an address.
IPv4Ok(text) ==
    LET Octets(octets) == Len(octets) = 4 /\ \A k \in DOMAIN octets : OctetOk(octets[k])
    IN  text # <<>> /\ Octets(Split(text, 46 (* . *)))

\* IPv6Address._parse_hextet accepts the text.
HextetOk(hextet) ==
    /\ hextet # <<>>
    /\ Len(hextet) <= 4
    /\ \A k \in DOMAIN hextet : IsHexDigit(hextet[k])

\* The checks of IPv6Address._ip_int_from_string on the parts between the
\* colons, an IPv4 suffix already replaced by two hextets: at most one "::",
\* which stands for at least one hextet, eight hextets in all, an empty
\* first or last part only as a part of "::".
HextetsOk(parts) ==
    LET n == Len(parts)
        skips == { i \in 1 .. n - 2 : parts[i + 1] = <<>> }
        Counted(parts_hi, parts_lo) ==
            /\ (parts[1] = <<>> => parts_hi = 0)
            /\ (parts[n] = <<>> => parts_lo = 0)
            /\ 8 - (parts_hi + parts_lo) >= 1
            /\ \A i \in 1 .. parts_hi : HextetOk(parts[i])
            /\ \A i \in n - parts_lo + 1 .. n : HextetOk(parts[i])
        Skipped(skip_index) ==
            Counted(IF parts[1] = <<>> THEN skip_index - 1 ELSE skip_index,
                    IF parts[n] = <<>> THEN n - skip_index - 2 ELSE n - skip_index - 1)
    IN  /\ n <= 9
        /\ Cardinality(skips) <= 1
        /\ IF skips # {} THEN Skipped(CHOOSE i \in skips : TRUE)
           ELSE n = 8 /\ \A i \in 1 .. n : HextetOk(parts[i])

\* IPv6Address(text) is an address: an optional scope id after "%", at
\* least two colons, an optional IPv4 suffix.
IPv6Ok(text) ==
    LET Zero == <<48 (* 0 *)>>
        Parts(parts) ==
            /\ Len(parts) >= 3
            /\ IF 46 (* . *) \in Range(parts[Len(parts)])
               THEN /\ IPv4Ok(parts[Len(parts)])
                    /\ HextetsOk(SubSeq(parts, 1, Len(parts) - 1) \o <<Zero, Zero>>)
               ELSE HextetsOk(parts)
        Scoped(percent) ==
            IF percent < 0 THEN text # <<>> /\ Parts(Split(text, 58 (* : *)))
            ELSE /\ percent + 1 < Len(text)
                 /\ find(text, 37 (* % *), percent + 1) < 0
                 /\ percent > 0
                 /\ Parts(Split(Slice(text, 0, percent), 58 (* : *)))
    IN  47 (* / *) \notin Range(text) /\ Scoped(find(text, 37 (* % *), 0))

\* re.match(r"\Av[a-fA-F0-9]+\..+\Z", hostname) for a hostname that starts
\* with "v".
IPvFutureOk(hostname) ==
    LET Dot(i) ==
            /\ i > 1
            /\ i + 1 < Len(hostname)
            /\ At(hostname, i) = 46 (* . *)
            /\ 10 \notin Range(SliceFrom(hostname, i + 1))
    IN  Dot(SkipWhile(hostname, 1, {cp \in Range(hostname) : IsHexDigit(cp)}))

\* _check_bracketed_host does not raise: ip_address(hostname) is an IPv6
\* address (an IPv4 address in brackets is rejected).
_check_bracketed_host(hostname) ==
    IF StartsWith(hostname, <<118 (* v *)>>) THEN IPvFutureOk(hostname)
    ELSE IPv6Ok(hostname)

\* netloc.partition("[")[2].partition("]")[0]
BracketedHost(netloc) ==
    LET Inside(after) ==
            IF find(after, 93 (* ] *), 0) < 0 THEN after
            ELSE Slice(after, 0, find(after, 93 (* ] *), 0))
    IN  Inside(SliceFrom(netloc, find(netloc, 91 (* [ *), 0) + 1))

\* urlsplit raises ValueError for the network location: unbalanced brackets,
\* a bracketed host that is no IPv6 or IPvFuture address, or a character
\* whose NFKC form holds a delimiter.
NetlocError(netloc) ==
    \/ (91 (* [ *) \in Range(netloc)) # (93 (* ] *) \in Range(netloc))
    \/ 91 (* [ *) \in Range(netloc) /\ ~_check_bracketed_host(BracketedHost(netloc))
    \/ \E k \in DOMAIN netloc : netloc[k] \in NfkcDelimiters

\* _splitnetloc(url, 2): where the network location ends.
_splitnetloc(url) ==
    Min({ k \in 2 .. Len(url) - 1 : At(url, k) \in {47 (* / *), 63 (* ? *), 35 (* # *)} }
        \cup {Len(url)})

\* The text before the first c, all of it when there is none.
Before(s, c) == IF find(s, c, 0) < 0 THEN s ELSE Slice(s, 0, find(s, c, 0))

\* _splitparams(url)[0]
_splitparams(url) ==
    LET Cut(i) == IF i < 0 THEN url ELSE Slice(url, 0, i)
    IN  IF 47 (* / *) \in Range(url)
        THEN Cut(find(url, 59 (* ; *), rfind(url, 47 (* / *))))
        ELSE Cut(find(url, 59 (* ; *), 0))

UrlParsed(error, path) == [error |-> error, path |-> path]

\* urlparse(url): the path, or the error raised.
urlparse(url0) ==
    LET Params(scheme, path) ==
            IF scheme \in uses_params /\ 59 (* ; *) \in Range(path)
            THEN _splitparams(path) ELSE path
        Split5(scheme, netloc, rest) ==
            IF NetlocError(netloc) THEN UrlParsed("ValueError", <<>>)
            ELSE UrlParsed("", Params(scheme, Before(Before(rest, 35 (* # *)), 63 (* ? *))))
        Located(scheme, url) ==
            IF Slice(url, 0, 2) = <<47, 47>> (* "//" *)
            THEN Split5(scheme, Slice(url, 2, _splitnetloc(url)), SliceFrom(url, _splitnetloc(url)))
            ELSE Split5(scheme, <<>>, url)
        Schemed(url, i) ==
            IF i > 0 /\ IsAsciiLetter(url[1]) /\ \A k \in 1 .. i : IsSchemeChar(url[k])
            THEN Located(Lower(Slice(url, 0, i)), SliceFrom(url, i + 1))
            ELSE Located(<<>>, url)
        Cleaned(url) == Schemed(url, find(url, 58 (* : *), 0))
    IN  Cleaned(SelectSeq(SliceFrom(url0, SkipWhile(url0, 0, {cp \in Range(url0) : IsC0OrSpace(cp)})),
                          LAMBDA c : ~IsUnsafeUrlByte(c)))

\* urlparse(url).path where urlparse returns.
UrlPath(url) == urlparse(url).path

DefaultSlug == <<108, 105, 115, 116, 105, 110, 103>> (* "listing" *)

HtmlSuffix == <<46, 104, 116, 109, 108>> (* ".html" *)

\* _suggest_filename(url) where urlparse returns; it raises ValueError
\* where urlparse does.
_suggest_filename(url) ==
    LET Named(sanitized) == (IF sanitized # <<>> THEN sanitized ELSE DefaultSlug) \o HtmlSuffix
        Slug(slug) ==
            Named(SelectSeq(slug, LAMBDA ch : IsAlnum(ch) \/ ch \in {45 (* - *), 95 (* _ *), 46 (* . *)}))
        Last(parts) == Slug(IF parts # <<>> THEN parts[Len(parts)] ELSE DefaultSlug)
        Path(path) == Last(SelectSeq(Split(path, 47 (* / *)), LAMBDA segment : segment # <<>>))
    IN  Path(RStripChar(UrlPath(url), 47 (* / *)))

\* The position of the "." that starts Path(name).suffix, 0 when the name
\* has no suffix.
SuffixStart(name) ==
    LET dots == { i \in DOMAIN name : name[i] = 46 (* . *) }
    IN  IF dots = {} THEN 0
        ELSE IF 1 < Max(dots) /\ Max(dots) < Len(name) THEN Max(dots) ELSE 0

\* Path(name).stem
Stem(name) ==
    IF SuffixStart(name) = 0 THEN name ELSE SubSeq(name, 1, SuffixStart(name) - 1)

\* Path(name).suffix
Suffix(name) ==
    IF SuffixStart(name) = 0 THEN <<>> ELSE SubSeq(name, SuffixStart(name), Len(name))

\* The decimal digits in order: DigitChars[d + 1] is the digit d.
DigitChars == <<48, 49, 50, 51, 52, 53, 54, 55, 56, 57>> (* "0123456789" *)

\* "%02d"
TwoDigits(n) == <<DigitChars[((n \div 10) % 10) + 1], DigitChars[(n % 10) + 1]>>

\* datetime.now().strftime("%Y%m%d-%H%M%S") when the clock reads `clock`
\* seconds after 2024-01-01 00:00:00, within January 2024.
Timestamp(clock) ==
    <<50, 48, 50, 52, 48, 49>> (* "202401" *)
        \o TwoDigits((clock \div 86400) + 1)
        \o <<45 (* - *)>>
        \o TwoDigits((clock \div 3600) % 24)
        \o TwoDigits((clock \div 60) % 60)
        \o TwoDigits(clock % 60)

\* _unique_path(directory, filename) when the directory holds `files`.
_unique_path(files, filename, clock) ==
    IF filename \notin DOMAIN files THEN filename
    ELSE Stem(filename) \o <<45 (* - *)>> \o Timestamp(clock) \o Suffix(filename)

\* The longest file name, in bytes, the file system takes (NAME_MAX of the
\* Linux file systems); stat() and open() raise OSError for a longer one.
NameMax == 255

\* The bytes of a name in the file system encoding, UTF-8.
Utf8Len(name) ==
    LET From(least) == Cardinality({ k \in DOMAIN name : name[k] >= least })
    IN  Len(name) + From(128) + From(2048) + From(65536)

\* urllib.parse.unwrap
unwrap(url0) ==
    LET Prefixed(url) ==
            IF Slice(url, 0, 4) = <<85, 82, 76, 58>> (* "URL:" *)
            THEN Strip(SliceFrom(url, 4)) ELSE url
        Wrapped(url) ==
            IF Len(url) >= 2 /\ url[1] = 60 (* < *) /\ url[Len(url)] = 62 (* > *)
            THEN Prefixed(Strip(SubSeq(url, 2, Len(url) - 1)))
            ELSE Prefixed(url)
    IN  Wrapped(Strip(url0))

\* _splittag(url)[0]: the text before the last "#".
_splittag(url) == IF rfind(url, 35 (* # *)) < 0 THEN url ELSE Slice(url, 0, rfind(url, 35 (* # *)))

\* _splittype(url)[0]: group 1 of '([^/:]+):(.*)' matched at the start of
\* the text, in lower case, or None.
_splittype(url) ==
    LET Type(i) == IF i > 0 /\ i < Len(url) /\ At(url, i) = 58 (* : *)
                   THEN Some(Lower(Slice(url, 0, i))) ELSE None
    IN  Type(SkipWhile(url, 0, {c \in Range(url) : c \notin {47 (* / *), 58 (* : *)}}))

\* Request.type as Request(url) sets it, None where it raises ValueError
\* ("unknown url type").
RequestType(url) == _splittype(_splittag(unwrap(url)))

\* Request.full_url: the unwrapped URL, without a trailing "#" that carries
\* no fragment.
full_url(url) ==
    LET Joined(unwrapped) ==
            IF unwrapped # <<>> /\ rfind(unwrapped, 35 (* # *)) = Len(unwrapped) - 1
            THEN Slice(unwrapped, 0, Len(unwrapped) - 1) ELSE unwrapped
    IN  Joined(unwrap(url))

\* Whether Request(url) raises ValueError: the URL has no type, or
\* request_host, which computes origin_req_host, calls urlparse on
\* full_url and that raises.
RequestRaises(url) ==
    \/ RequestType(url).none
    \/ urlparse(full_url(url)).error # ""

\* The URL types the opener of build_opener has a handler for, no proxy
\* being configured; opening another type raises URLError.
HandledTypes ==
    { <<104, 116, 116, 112>> (* "http" *),
      <<104, 116, 116, 112, 115>> (* "https" *),
      <<102, 116, 112>> (* "ftp" *),
      <<102, 105, 108, 101>> (* "file" *),
      <<100, 97, 116, 97>> (* "data" *) }

(***************************************************************************)
(* SpecDownload: calls of download_listing, the clock advancing between    *)
(* them or not.                                                            *)
(***************************************************************************)
\* The calls of download_listing in one behaviour.
MaxDownloads == 3

\* The seconds the clock advances in one behaviour.
MaxClock == 1

Download(files, clock, calls, outcome, target, existed) ==
    [pc |-> "ready", files |-> files, clock |-> clock, calls |-> calls,
     outcome |-> outcome, target |-> target, existed |-> existed]

InitDownload ==
    /\ ParserInit
    /\ download = Download(<<>>, 0, 0, "none", <<>>, FALSE)
    /\ pagination = NotRunning
    /\ batching = NotRunning

\* What opener.open and response.read come to: the environment's answer.
\* "content": the bytes are read; "HTTPError", "URLError": that exception;
\* "raised": any other exception (a timeout while reading, a malformed
\* response), which download_listing does not catch.
FetchAnswers == {"content", "HTTPError", "URLError", "raised"}

\* The answers the opener can give for a URL: the bytes only where it has a
\* handler for the type of the URL.
OpenerAnswers(url) ==
    LET Typed(type) ==
            IF ~type.none /\ type.value \in HandledTypes THEN FetchAnswers
            ELSE FetchAnswers \ {"content"}
    IN  Typed(RequestType(url))

\* download_listing(url) in directory state d when the fetch answers
\* `fetch` (with the bytes `content`): the record of the call.  An
\* exception leaves the files alone; outcome names it.
Downloaded(d, url, fetch, content) ==
    LET Ends(outcome) == Download(d.files, d.clock, d.calls + 1, outcome, <<>>, FALSE)
        Written(target_path) ==
            IF Utf8Len(target_path) > NameMax THEN Ends("OSError")
            ELSE Download([name \in DOMAIN d.files \cup {target_path} |->
                              IF name = target_path THEN content ELSE d.files[name]],
                          d.clock, d.calls + 1, "saved", target_path,
                          target_path \in DOMAIN d.files)
        Named(filename) ==
            IF Utf8Len(filename) > NameMax THEN Ends("OSError")
            ELSE Written(_unique_path(d.files, filename, d.clock))
    IN  IF url = <<>> THEN Ends("ValueError")
        ELSE IF RequestRaises(url) THEN Ends("ValueError")
        ELSE IF fetch \in {"HTTPError", "URLError"} THEN Ends("RuntimeError")
        ELSE IF fetch = "raised" THEN Ends("raised")
        ELSE IF urlparse(url).error # "" THEN Ends("ValueError")
        ELSE Named(_suggest_filename(url))

download_listing(url, fetch, content) ==
    /\ download' = Downloaded(download, url, fetch, content)
    /\ UNCHANGED <<parser, pagination, batching>>

\* A second passes.
Tick ==
    /\ download.clock < MaxClock
    /\ download' = [download EXCEPT !.clock = @ + 1]
    /\ UNCHANGED <<parser, pagination, batching>>

\* Two listing URLs with the same last path segment and the site's root;
\* a URL without a type, one of a type without a handler, one whose network
\* location urlparse rejects, and one whose file name is too long.
DownloadUrls ==
    { <<104, 116, 116, 112, 115, 58, 47, 47, 107, 46, 100, 101, 47, 97, 47, 49, 46, 50>> (* "https://k.de/a/1.2" *),
      <<104, 116, 116, 112, 115, 58, 47, 47, 107, 46, 100, 101, 47, 98, 47, 49, 46, 50, 47, 63, 120>> (* "https://k.de/b/1.2/?x" *),
      <<104, 116, 116, 112, 115, 58, 47, 47, 107, 46, 100, 101, 47>> (* "https://k.de/" *),
      <<107, 46, 100, 101, 47, 97>> (* "k.de/a" *),
      <<109, 97, 105, 108, 116, 111, 58, 120>> (* "mailto:x" *),
      <<100, 97, 116, 97, 58, 47, 47, 91, 120, 44, 121>> (* "data://[x,y" *),
      <<104, 116, 116, 112, 115, 58, 47, 47, 107, 46, 100, 101, 47>> (* "https://k.de/" *) \o [i \in 1 .. 251 |-> 97 (* a *)] }

\* A call in which the fetch returns the content.
DownloadSaves ==
    /\ download.pc = "ready"
    /\ download.calls < MaxDownloads
    /\ \E url \in DownloadUrls :
           /\ "content" \in OpenerAnswers(url)
           /\ download_listing(url, "content", download.calls + 1)

\* A call in which the fetch raises.
DownloadFails ==
    /\ download.pc = "ready"
    /\ download.calls < MaxDownloads
    /\ \E url \in DownloadUrls, fetch \in FetchAnswers \ {"content"} :
           download_listing(url, fetch, 0)

\* download_listing("")
DownloadEmptyUrl ==
    /\ download.pc = "ready"
    /\ download.calls < MaxDownloads
    /\ download_listing(<<>>, "content", 0)

NextDownload ==
    \/ DownloadSaves
    \/ DownloadFails
    \/ DownloadEmptyUrl
    \/ Tick

SpecDownload == InitDownload /\ [][NextDownload]_vars

(***************************************************************************)
(* C18.  Saving a download never overwrites an existing file: the path     *)
(* _unique_path returned, which download_listing then opens for writing,   *)
(* did not name a file when it was chosen, also for repeated downloads of  *)
(* the same URL within one clock second.                                   *)
(***************************************************************************)
C18_NeverOverwrites ==
    download.pc = "ready" => ~download.existed

\* The file written over is always one that a rename created; the name
\* derived from the URL is never written twice.
C18_OnlyRenamedOverwritten ==
    (download.pc = "ready" /\ download.existed)
        => \E second \in 0 .. download.clock :
               EndsWith(Stem(download.target), <<45 (* - *)>> \o Timestamp(second))

(***************************************************************************)
(* src/link_scraper.py: the pagination loop of main.  The state is the     *)
(* loop's variables and `fetched`, the URLs passed to download_listing in  *)
(* order.                                                                  *)
(***************************************************************************)
\* str(page)
RECURSIVE IntToStr(_)
IntToStr(n) ==
    IF n < 10 THEN <<DigitChars[n + 1]>>
    ELSE IntToStr(n \div 10) \o <<DigitChars[(n % 10) + 1]>>

SeiteKey == <<115, 101, 105, 116, 101, 58>> (* "seite:" *)

\* re.sub(r"(seite:)(\d+)", _repl, url, count=1): the digits after the
\* leftmost "seite:" that is followed by a digit are replaced by the page.
SubSeite(url, page) ==
    LET starts == { i \in 0 .. Len(url) - Len(SeiteKey) - 1 :
                      startswith(url, SeiteKey, i) /\ IsDecimal(At(url, i + Len(SeiteKey))) }
        Replaced(first) ==
            Slice(url, 0, first) \o IntToStr(page)
                \o SliceFrom(url, SkipWhile(url, first, {cp \in Range(url) : IsDecimal(cp)}))
    IN  IF starts = {} THEN url ELSE Replaced(Min(starts) + Len(SeiteKey))

\* url.rsplit("/", 1) for a url that holds "/": the position of the last "/".
LastSlash(url) == Max({ i \in DOMAIN url : url[i] = 47 (* / *) })

_with_page(url, page) ==
    LET updated == SubSeite(url, page)
        number == IntToStr(page)
    IN  IF updated # url \/ page = 1 THEN updated
        ELSE IF 63 (* ? *) \in Range(url)
        THEN url \o (IF ~EndsWith(url, <<63 (* ? *)>>) THEN <<38 (* & *)>> ELSE <<>>)
                 \o <<112, 97, 103, 101, 61>> (* "page=" *) \o number
        ELSE IF 47 (* / *) \notin Range(url)
        THEN url \o <<47 (* / *)>> \o SeiteKey \o number
        ELSE IF LastSlash(url) = Len(url)
        THEN url \o SeiteKey \o number
        ELSE SubSeq(url, 1, LastSlash(url) - 1) \o <<47 (* / *)>> \o SeiteKey \o number
             \o SubSeq(url, LastSlash(url), Len(url))

max_pages == 50

Pagination(pc, url, page, page_url, visited_pages, fetched) ==
    [pc |-> pc, url |-> url, page |-> page, page_url |-> page_url,
     visited_pages |-> visited_pages, fetched |-> fetched]

\* Mutant of VisitedAdd: the page is not recorded as visited.
VisitedAddNothing(visited_pages, page_url) == visited_pages

\* visited_pages.add(page_url)
VisitedAdd(visited_pages, page_url) == visited_pages \cup {page_url}

\* `while page_url and page <= max_pages`
LoopCondition(p) == p.page_url # <<>> /\ p.page <= max_pages

\* One pass through the loop body in which the page is fetched and parsed;
\* `found` is what _find_next_page returns (None, or the absolute URL of
\* the link it picked).
LoopBody(p, found) ==
    LET visited == VisitedAdd(p.visited_pages, p.page_url)
        next_url == IF found.none THEN _with_page(p.url, p.page + 1) ELSE found.value
    IN  IF p.page_url \in p.visited_pages
        THEN Pagination("done", p.url, p.page, p.page_url, p.visited_pages, p.fetched)
        ELSE IF next_url \in visited \/ next_url = p.page_url
        THEN Pagination("done", p.url, p.page, p.page_url, visited,
                        Append(p.fetched, p.page_url))
        ELSE Pagination("loop", p.url, p.page + 1, next_url, visited,
                        Append(p.fetched, p.page_url))

\* The search URLs main may be given: one for each branch of _with_page.
SearchUrls ==
    { <<107, 47, 115, 101, 105, 116, 101, 58, 49, 47, 99>> (* "k/seite:1/c" *),
      <<107, 47, 99>> (* "k/c" *),
      <<107, 63, 113>> (* "k?q" *),
      <<107, 63>> (* "k?" *),
      <<107 (* k *)>>,
      <<107, 47>> (* "k/" *) }

InitPagination ==
    /\ ParserInit
    /\ download = NotRunning
    /\ batching = NotRunning
    /\ \E url \in SearchUrls : pagination = Pagination("loop", url, 1, url, {}, <<>>)

\* What _find_next_page may return on a page: nothing, a link to the page
\* itself, to the first page, or to one other page.
FoundNext(p) == { None, Some(p.page_url), Some(p.url), Some(<<110 (* n *)>>) }

\* A pass in which the page is fetched.
FetchPage ==
    /\ pagination.pc = "loop"
    /\ LoopCondition(pagination)
    /\ \E found \in FoundNext(pagination) : pagination' = LoopBody(pagination, found)
    /\ UNCHANGED <<parser, download, batching>>

\* A pass in which download_listing raises (main returns), or in which
\* read_text, parse_html, _find_next_page or its urljoin does (main ends
\* with the exception).
FetchFails ==
    /\ pagination.pc = "loop"
    /\ LoopCondition(pagination)
    /\ pagination.page_url \notin pagination.visited_pages
    /\ \E pc \in {"failed", "raised"} :
           pagination' = Pagination(pc, pagination.url, pagination.page, pagination.page_url,
                                    VisitedAdd(pagination.visited_pages, pagination.page_url),
                                    Append(pagination.fetched, pagination.page_url))
    /\ UNCHANGED <<parser, download, batching>>

\* The loop condition is false.
LoopExit ==
    /\ pagination.pc = "loop"
    /\ ~LoopCondition(pagination)
    /\ pagination' = [pagination EXCEPT !.pc = "done"]
    /\ UNCHANGED <<parser, download, batching>>

NextPagination ==
    \/ FetchPage
    \/ FetchFails
    \/ LoopExit

\* main runs on: nothing but the end of the loop stops a pass.
SpecPagination ==
    InitPagination /\ [][NextPagination]_vars /\ WF_vars(NextPagination)

\* What holds of the loop at every moment: at most max_pages fetches, no
\* URL fetched twice, and the loop goes on only with a URL not yet visited.
PaginationBounded ==
    /\ Len(pagination.fetched) <= max_pages
    /\ \A i, j \in DOMAIN pagination.fetched :
           pagination.fetched[i] = pagination.fetched[j] => i = j
    /\ pagination.pc = "loop" => pagination.page_url \notin pagination.visited_pages

(***************************************************************************)
(* C19.  The pagination loop of main terminates whatever the pages link    *)
(* to: it fetches at most 50 pages, never the same URL twice, and stops as *)
(* soon as the next URL is the current one or one already visited.         *)
(***************************************************************************)
C19_PaginationTerminates ==
    /\ [](pagination.pc # "idle" => PaginationBounded)
    /\ <>(pagination.pc \in {"done", "failed", "raised"})

\* The loop ran its 50 passes and ended on the page count.
C19_Witness ==
    /\ pagination.pc = "done"
    /\ pagination.page = max_pages + 1
    /\ Len(pagination.fetched) = max_pages

\* The loop ended early, on a link back to a page visited before.
C19_WitnessCycle ==
    /\ pagination.pc = "done"
    /\ pagination.page > 2
    /\ pagination.page <= max_pages
    /\ <<110 (* n *)>> \in pagination.visited_pages

(***************************************************************************)
(* Baran_scraper._process_listings and _send_batch.  A listing is named by *)
(* the position of its file in html_paths; `sends` is the log of the calls *)
(* of _send_batch, in the order they were made.                            *)
(***************************************************************************)
BATCH_SIZE == 500

\* The largest number of full batches in the inputs.
MaxBatches == 2

Batching(pc, total, bad, index, batch, batch_index, processed, failures,
         sent_batches, webhook_failures, sends) ==
    [pc |-> pc, total |-> total, bad |-> bad, index |-> index, batch |-> batch,
     batch_index |-> batch_index, processed |-> processed, failures |-> failures,
     sent_batches |-> sent_batches, webhook_failures |-> webhook_failures,
     sends |-> sends]

\* What a call of _send_batch may do: return (True, ""), return (False,
\* message), or end with an exception it does not catch (the connection is
\* closed before a status line arrives: http.client.RemoteDisconnected).
SendOutcomes == {"sent", "refused", "raises"}

\* _send_batch(batch, batch_index, webhook_url) and the bookkeeping of its
\* result in _process_listings.
_send_batch(b, outcome) ==
    LET call == [batch_index |-> b.batch_index, listings |-> b.batch]
        logged == [b EXCEPT !.sends = Append(b.sends, call)]
    IN  CASE outcome = "sent" ->
                 [logged EXCEPT !.sent_batches = Append(b.sent_batches, b.batch_index)]
          [] outcome = "refused" ->
                 [logged EXCEPT !.webhook_failures = Append(b.webhook_failures, b.batch_index)]
          [] outcome = "raises" ->
                 [logged EXCEPT !.pc = "raised"]

\* Mutant of BatchFull: a batch is never sent from within the loop.
BatchNeverFull(batch) == FALSE

\* `if len(batch) == BATCH_SIZE`
BatchFull(batch) == Len(batch) = BATCH_SIZE

\* `batch = []; batch_index += 1` after a batch sent from within the loop.
NextBatch(b) ==
    IF b.pc = "raised" THEN b
    ELSE [b EXCEPT !.batch = <<>>, !.batch_index = b.batch_index + 1]

\* One pass of the loop over html_paths: file number index + 1.
ProcessOne(b, outcome) ==
    LET file == b.index + 1
        extracted ==
            IF file \in b.bad
            THEN [b EXCEPT !.index = file, !.failures = Append(b.failures, file)]
            ELSE [b EXCEPT !.index = file, !.batch = Append(b.batch, file),
                           !.processed = b.processed + 1]
    IN  IF BatchFull(extracted.batch)
        THEN NextBatch(_send_batch(extracted, outcome))
        ELSE extracted

\* The code after the loop: the batch left over, if any, is sent.
AfterLoop(b, outcome) ==
    LET sent == IF b.batch # <<>> THEN _send_batch(b, outcome) ELSE b
    IN  IF sent.pc = "raised" THEN sent ELSE [sent EXCEPT !.pc = "done"]

\* The numbers of input files: none, a few, and up to MaxBatches full
\* batches with and without a file left over.
Totals ==
    {0, 1, 2} \cup { k * BATCH_SIZE : k \in 1 .. MaxBatches }
              \cup { k * BATCH_SIZE + 1 : k \in 1 .. MaxBatches }

\* The files whose extraction may fail: the first, those on either side of
\* the end of the first batch, and the last.
BadCandidates(total) == {1, BATCH_SIZE, BATCH_SIZE + 1, total} \cap (1 .. total)

InitBatching ==
    /\ ParserInit
    /\ download = NotRunning
    /\ pagination = NotRunning
    /\ \E total \in Totals : \E bad \in SUBSET BadCandidates(total) :
           batching = Batching("start", total, bad, 0, <<>>, 1, 0, <<>>, <<>>, <<>>, <<>>)

\* `if total == 0: return ...`, else the loop begins.
StartBatching ==
    /\ batching.pc = "start"
    /\ batching' = [batching EXCEPT !.pc = IF batching.total = 0 THEN "done" ELSE "loop"]
    /\ UNCHANGED <<parser, download, pagination>>

ProcessFile ==
    /\ batching.pc = "loop"
    /\ batching.index < batching.total
    /\ \E outcome \in SendOutcomes : batching' = ProcessOne(batching, outcome)
    /\ UNCHANGED <<parser, download, pagination>>

FinalBatch ==
    /\ batching.pc = "loop"
    /\ batching.index = batching.total
    /\ \E outcome \in SendOutcomes : batching' = AfterLoop(batching, outcome)
    /\ UNCHANGED <<parser, download, pagination>>

NextBatching ==
    \/ StartBatching
    \/ ProcessFile
    \/ FinalBatch

SpecBatching == InitBatching /\ [][NextBatching]_vars

\* The listings extracted from the first n files, in input order.
Extracted(n, bad) == SelectSeq([i \in 1 .. n |-> i], LAMBDA i : i \notin bad)

\* The listings of all the calls of _send_batch, one after the other.
RECURSIVE SentListings(_)
SentListings(sends) ==
    IF sends = <<>> THEN <<>>
    ELSE SentListings(SubSeq(sends, 1, Len(sends) - 1)) \o sends[Len(sends)].listings

TimesIn(seq, x) == Cardinality({ i \in DOMAIN seq : seq[i] = x })

\* Every listing in exactly one batch, in input order; batches non-empty,
\* of at most BATCH_SIZE listings, numbered 1, 2, 3, ...
BatchesWellFormed(b) ==
    /\ SentListings(b.sends) = Extracted(b.index, b.bad)
    /\ \A k \in DOMAIN b.sends :
           /\ b.sends[k].batch_index = k
           /\ b.sends[k].listings # <<>>
           /\ Len(b.sends[k].listings) <= BATCH_SIZE
    /\ b.processed = Len(SentListings(b.sends))

\* Every batch is recorded once, as sent or as failed, and nothing else is.
BatchesRecorded(b) ==
    /\ \A k \in DOMAIN b.sends :
           TimesIn(b.sent_batches, k) + TimesIn(b.webhook_failures, k) = 1
    /\ Len(b.sent_batches) + Len(b.webhook_failures) = Len(b.sends)

(***************************************************************************)
(* C20.  When _process_listings ends, whatever extractions and deliveries  *)
(* failed: every extracted listing was passed to _send_batch in exactly    *)
(* one batch; batches are non-empty, of at most BATCH_SIZE listings, in    *)
(* input order and numbered 1, 2, 3, ...; each batch was attempted once    *)
(* and is recorded in exactly one of sent_batches and webhook_failures;    *)
(* processed is the number of listings in all batches.                     *)
(***************************************************************************)
C20_EveryBatchSentAndRecorded ==
    batching.pc \in {"done", "raised"} =>
        /\ BatchesWellFormed(batching)
        /\ BatchesRecorded(batching)
        /\ batching.index = batching.total

\* The same, for the runs in which _send_batch returns: it holds of them.
C20_RecordedWhenSendReturns ==
    /\ batching.pc = "done" =>
           /\ BatchesWellFormed(batching)
           /\ BatchesRecorded(batching)
           /\ batching.index = batching.total
    /\ batching.pc = "raised" => BatchesWellFormed(batching)

\* A run of several batches, with a failed extraction, a refused batch and
\* a delivered one, that ended by returning.
C20_WitnessReturns ==
    /\ batching.pc = "done"
    /\ Len(batching.sends) >= MaxBatches
    /\ batching.failures # <<>>
    /\ batching.webhook_failures # <<>>
    /\ batching.sent_batches # <<>>

====
